---- MODULE Spec2Model ----
(***************************************************************************)
(* Turn orchestration engine of chambr-engine-core (src/v3/engine.ts,      *)
(* src/v3/events.ts): one call of runRoomTurnTheatricalV3 as a state       *)
(* machine whose steps are the awaited external operations.                *)
(*                                                                         *)
(* Strings are sequences of one-character strings; "NL" stands for the     *)
(* newline character.  A JSON text is a record of the values JSON.parse    *)
(* yields for it, next to the characters of the text itself.               *)
(***************************************************************************)
EXTENDS Integers, Sequences, FiniteSets, TLC

(***************************************************************************)
(* Bounds of the exploration                                               *)
(***************************************************************************)
MaxDirectorEntries == 2 \* longest beats array in a director output
MaxLines == 2           \* most lines in one speaker output
MaxElapsed == 1         \* largest elapsed time (ms) the clock shows
MaxTurns == 5           \* most turns of a series that have returned
MaxEventList == 3       \* longest event list given to an exported event function
MaxPlanEntries == 3     \* longest beats array given to the plan parser on its own
MaxTurnIndex == 2       \* largest turn index given to the plan builders on their own
MaxPlanTurns == 11      \* most turns of a series that fills the plan history
MaxOutputLines == 2     \* most lines in a speaker output of the accept-loop turns
MaxExtraLines == 2      \* most thoughts and actions before the speak event of a capped turn's output

(***************************************************************************)
(* Program constants                                                       *)
(***************************************************************************)
DEFAULT_COMPACT_EVERY_CHARS == 12000
DEFAULT_COMPACT_KEEP_MESSAGES == 5
DIRECTOR_HISTORY_LIMIT == 10
MAX_AGENT_MEMORY == 12
THEATRICAL_CONTRACT_VERSION == 1
THEATRICAL_EVENT_SCHEMA_VERSION == 1
FallbackTextLimit == 360

(***************************************************************************)
(* Strings                                                                 *)
(***************************************************************************)
Min(a, b) == IF a < b THEN a ELSE b
Max(a, b) == IF a > b THEN a ELSE b

Str_I == <<"I", " ", "a", "m", " ", "h", "e", "r", "e", ".">>
Str_Colon == <<":", " ">>
Str_ActionTag == <<" ", "(", "a", "c", "t", "i", "o", "n", ")", ":", " ">>
Str_ThoughtTag == <<" ", "(", "t", "h", "o", "u", "g", "h", "t", ")", ":", " ">>

IsBlankChar(c) == c \in {" ", "TAB"}
IsSpaceChar(c) == c \in {" ", "TAB", "NL"}

\* The positions of s, in order (a regular-expression replacement or a trim
\* keeps the characters at a subsequence of them).
Positions(s) == [i \in 1..Len(s) |-> i]

DropWhileBlank(s) ==
  LET kept == SelectSeq(Positions(s), LAMBDA i : ~IsBlankChar(s[i]))
  IN  IF kept = <<>> THEN <<>> ELSE SubSeq(s, kept[1], Len(s))

\* /[ \t]+/g -> " ": the first character of every run of blanks stays, as a space.
CollapseBlanks(s) ==
  LET kept == SelectSeq(Positions(s), LAMBDA i : ~IsBlankChar(s[i]) \/ i = 1 \/ ~IsBlankChar(s[i - 1]))
  IN  [k \in 1..Len(kept) |-> IF IsBlankChar(s[kept[k]]) THEN " " ELSE s[kept[k]]]

\* /\n{3,}/g -> "\n\n": the first two newlines of every run stay.
CollapseNewlines(s) ==
  LET kept == SelectSeq(Positions(s),
          LAMBDA i : ~(i >= 3 /\ s[i] = "NL" /\ s[i - 1] = "NL" /\ s[i - 2] = "NL"))
  IN  [k \in 1..Len(kept) |-> s[kept[k]]]

TrimStart(s) ==
  LET kept == SelectSeq(Positions(s), LAMBDA i : ~IsSpaceChar(s[i]))
  IN  IF kept = <<>> THEN <<>> ELSE SubSeq(s, kept[1], Len(s))

TrimEnd(s) ==
  LET kept == SelectSeq(Positions(s), LAMBDA i : ~IsSpaceChar(s[i]))
  IN  IF kept = <<>> THEN <<>> ELSE SubSeq(s, 1, kept[Len(kept)])

Trim(s) == TrimEnd(TrimStart(s))

compact(s) == Trim(CollapseNewlines(CollapseBlanks(s)))

Slice(s, n) == SubSeq(s, 1, Min(n, Len(s)))

LastN(s, n) == IF Len(s) <= n THEN s ELSE SubSeq(s, Len(s) - n + 1, Len(s))

LowerChar(c) ==
  CASE c = "A" -> "a"
    [] c = "B" -> "b"
    [] c = "C" -> "c"
    [] c = "D" -> "d"
    [] OTHER -> c

toLowerCase(s) == [i \in 1..Len(s) |-> LowerChar(s[i])]

Range(s) == {s[i] : i \in DOMAIN s}

(***************************************************************************)
(* Roster: roomie i has id i; the names of roomies 1 and 2 differ only in  *)
(* letter case.                                                            *)
(***************************************************************************)

RoomieIds == {1, 2}

Roomie(i) == [id |-> i, name |-> <<<<"A", "a">>[i]>>]

Roster(n) == [i \in 1..n |-> Roomie(i)]

(***************************************************************************)
(* Director output.  kind: "blank" | "text" (no JSON object in it) |       *)
(* "object" (the text is a JSON object) | "wrapped" (a JSON object between *)
(* other text).  agent_id 0 stands for a missing, blank or unknown id.     *)
(***************************************************************************)
NoInt == [has |-> FALSE, v |-> 0]
RawInt(n) == [has |-> TRUE, v |-> n]

StyleDefaults ==
  [allow_action |-> "absent", allow_thought |-> "absent", max_events |-> RawInt(9), intent |-> ""]
StyleOpen ==
  [allow_action |-> "true", allow_thought |-> "'TRUE'", max_events |-> NoInt, intent |-> "probe"]

\* The entries a director output may hold for agent id a.
BeatStyles(a) ==
  CASE a = 1 -> {StyleDefaults, StyleOpen}
    [] a = 2 -> {StyleOpen, [allow_action |-> "'false'", allow_thought |-> "true",
            max_events |-> RawInt(0), intent |-> ""]}
    [] OTHER -> {StyleDefaults}

DirectorEntry(a, st) ==
  [isObject |-> TRUE, agent_id |-> a, allow_action |-> st.allow_action,
   allow_thought |-> st.allow_thought, max_events |-> st.max_events, intent |-> st.intent]

DirectorEntries ==
  {[isObject |-> FALSE, agent_id |-> 0, allow_action |-> "absent", allow_thought |-> "absent",
          max_events |-> NoInt, intent |-> ""]} \cup UNION {{DirectorEntry(a,
          st) : st \in BeatStyles(a)} : a \in {0} \cup RoomieIds}

SeqsUpTo(S, n) == UNION {[1..k -> S] : k \in 0..n}

DirectorRaws ==
  {[kind |-> k, hasBeats |-> FALSE, beats |-> <<>>] : k \in {"blank", "text", "object", "wrapped"}}
  \cup {[kind |-> k, hasBeats |-> TRUE, beats |-> b] :
          k \in {"object", "wrapped"}, b \in SeqsUpTo(DirectorEntries, MaxDirectorEntries)}

parseMaybeJsonObject(raw) == raw.kind \in {"object", "wrapped"}

\* toPositiveInt without the clamp to min..max.
toPositiveIntUnclamped(value, fallback, min, max) ==
  IF ~value.has THEN fallback ELSE value.v

\* engine.ts 83-87; a non-finite value is NoInt.
toPositiveInt(value, fallback, min, max) ==
  IF ~value.has THEN fallback ELSE Max(min, Min(max, value.v))

toBool(value, fallback) ==
  CASE value = "true" -> TRUE
    [] value = "false" -> FALSE
    [] value = "'TRUE'" -> TRUE
    [] value = "'false'" -> FALSE
    [] OTHER -> fallback

toShortText(value, fallback) == IF value = "" THEN fallback ELSE value

BeatId(turnIndex, k) == [p |-> "b", a |-> turnIndex + 1, b |-> k]

NoPlan == [turnIndex |-> 0, beats |-> <<>>, trace |-> [source |-> "none", attempts |-> 0, reason |-> ""]]

\* buildFallbackPlan with the permissions granted.
buildFallbackPlanPermissive(activeRoomies, turnIndex, reason, maxEventsPerBeat) ==
  [turnIndex |-> turnIndex,
   beats |-> [index \in 1..Len(activeRoomies) |->
                [beatId |-> BeatId(turnIndex, index),
                 agentId |-> activeRoomies[index].id,
                 intent |-> "respond-helpfully",
                 allowAction |-> TRUE,
                 allowThought |-> TRUE,
                 toneHint |-> "balanced",
                 maxEvents |-> maxEventsPerBeat]],
   trace |-> [source |-> "fallback", attempts |-> 0, reason |-> reason]]

buildFallbackPlan(activeRoomies, turnIndex, reason, maxEventsPerBeat) ==
  [turnIndex |-> turnIndex,
   beats |-> [index \in 1..Len(activeRoomies) |->
                [beatId |-> BeatId(turnIndex, index),
                 agentId |-> activeRoomies[index].id,
                 intent |-> "respond-helpfully",
                 allowAction |-> FALSE,
                 allowThought |-> FALSE,
                 toneHint |-> "balanced",
                 maxEvents |-> maxEventsPerBeat]],
   trace |-> [source |-> "fallback", attempts |-> 0, reason |-> reason]]

ActiveIds(activeRoomies) == {activeRoomies[i].id : i \in DOMAIN activeRoomies}

\* DirectorBeatOf that numbers a beat after its roomie.
DirectorBeatOfAgentOrdinal(record, turnIndex, ordinal, maxEventsPerBeat) ==
  [beatId |-> BeatId(turnIndex, record.agent_id),
   agentId |-> record.agent_id,
   intent |-> toShortText(record.intent, "respond-helpfully"),
   allowAction |-> toBool(record.allow_action, FALSE),
   allowThought |-> toBool(record.allow_thought, FALSE),
   toneHint |-> "balanced",
   maxEvents |-> toPositiveInt(record.max_events, maxEventsPerBeat, 1, 4)]

\* The beat pushed for a valid entry (engine.ts 164-172).
DirectorBeatOf(record, turnIndex, ordinal, maxEventsPerBeat) ==
  [beatId |-> BeatId(turnIndex, ordinal),
   agentId |-> record.agent_id,
   intent |-> toShortText(record.intent, "respond-helpfully"),
   allowAction |-> toBool(record.allow_action, FALSE),
   allowThought |-> toBool(record.allow_thought, FALSE),
   toneHint |-> "balanced",
   maxEvents |-> toPositiveInt(record.max_events, maxEventsPerBeat, 1, 4)]

\* DirectorEntryAccepted without the one-beat-per-participant check.
DirectorEntryAcceptedTwice(entry, beats, activeRoomies) ==
  /\ entry.isObject
  /\ entry.agent_id \in ActiveIds(activeRoomies)

DirectorEntryAccepted(entry, beats, activeRoomies) ==
  /\ entry.isObject
  /\ entry.agent_id \in ActiveIds(activeRoomies)
  /\ ~\E k \in DOMAIN beats : beats[k].agentId = entry.agent_id

\* DirectorBeatsLoop that stops after its first beat.
DirectorBeatsLoopOneBeat(beatsRaw, beats, activeRoomies, turnIndex, maxEventsPerBeat) ==
  LET accepted == SelectSeq(beatsRaw, LAMBDA entry : DirectorEntryAccepted(entry, beats, activeRoomies))
  IN  IF accepted = <<>> THEN beats
      ELSE Append(beats, DirectorBeatOf(accepted[1], turnIndex, Len(beats) + 1, maxEventsPerBeat))

\* The loop over the entries of the beats array (engine.ts 155-176).
RECURSIVE DirectorBeatsLoop(_, _, _, _, _)
DirectorBeatsLoop(beatsRaw, beats, activeRoomies, turnIndex, maxEventsPerBeat) ==
  IF beatsRaw = <<>> THEN beats
  ELSE IF ~DirectorEntryAccepted(Head(beatsRaw), beats, activeRoomies)
    THEN DirectorBeatsLoop(Tail(beatsRaw), beats, activeRoomies, turnIndex, maxEventsPerBeat)
  ELSE LET next == Append(beats, DirectorBeatOf(Head(beatsRaw), turnIndex, Len(beats) + 1, maxEventsPerBeat))
       IN  IF Len(next) >= Len(activeRoomies) THEN next
           ELSE DirectorBeatsLoop(Tail(beatsRaw), next, activeRoomies, turnIndex, maxEventsPerBeat)

\* parseDirectorPlanSchema without the check that some beat is valid.
parseDirectorPlanSchemaUnguarded(raw, activeRoomies, turnIndex, maxEventsPerBeat) ==
  IF ~parseMaybeJsonObject(raw)
    THEN [ok |-> FALSE, reason |-> "director-invalid-json", plan |-> NoPlan]
  ELSE IF ~raw.hasBeats \/ raw.beats = <<>>
    THEN [ok |-> FALSE, reason |-> "director-missing-beats", plan |-> NoPlan]
  ELSE [ok |-> TRUE, reason |-> "",
        plan |-> [turnIndex |-> turnIndex,
                  beats |-> DirectorBeatsLoop(raw.beats, <<>>, activeRoomies, turnIndex, maxEventsPerBeat),
                  trace |-> [source |-> "model", attempts |-> 1, reason |-> ""]]]

parseDirectorPlanSchema(raw, activeRoomies, turnIndex, maxEventsPerBeat) ==
  IF ~parseMaybeJsonObject(raw)
    THEN [ok |-> FALSE, reason |-> "director-invalid-json", plan |-> NoPlan]
  ELSE IF ~raw.hasBeats \/ raw.beats = <<>>
    THEN [ok |-> FALSE, reason |-> "director-missing-beats", plan |-> NoPlan]
  ELSE LET beats == DirectorBeatsLoop(raw.beats, <<>>, activeRoomies, turnIndex, maxEventsPerBeat)
       IN  IF beats = <<>>
             THEN [ok |-> FALSE, reason |-> "director-no-valid-beats", plan |-> NoPlan]
           ELSE [ok |-> TRUE, reason |-> "",
                 plan |-> [turnIndex |-> turnIndex, beats |-> beats,
                           trace |-> [source |-> "model", attempts |-> 1, reason |-> ""]]]


(***************************************************************************)
(* Speaker output: a sequence of lines.  A line carries its characters     *)
(* (text) and what JSON.parse makes of them: kind "blank" | "not-json" |   *)
(* "not-object" | "object", and for an object its fields.  An absent or    *)
(* non-string field is "" / <<>> / NoId / NoInt.                           *)
(***************************************************************************)
NoId == [p |-> "", a |-> 0, b |-> 0]

EventId(prefixTurn, counter) == [p |-> "t", a |-> prefixTurn, b |-> counter]

RawLine(text, kind) ==
  [text |-> text, kind |-> kind, type |-> "", author |-> <<>>, content |-> <<>>,
   eventId |-> NoId, beatId |-> NoId, visibility |-> "", intensity |-> NoInt, origin |-> ""]

EventLine(text, type, content) ==
  [RawLine(text, "object") EXCEPT !.type = type, !.content = content]

SpeakerLines ==
  { EventLine(<<"{", "s", "}">>, "speak", <<"h", "i">>),
    [EventLine(<<"{", "a", "}">>, "action", <<"a", " ", " ", "b">>)
       EXCEPT !.eventId = EventId(1, 1), !.beatId = [p |-> "z", a |-> 0, b |-> 0],
              !.author = <<"Z">>],
    EventLine(<<"{", "t", "}">>, "thought", <<"a", "b", "c">>),
    EventLine(<<"{", "T", "}">>, "thought", <<"a", "b", "d">>) }

SpeakerRaws == SeqsUpTo(SpeakerLines, MaxLines)

\* The text of an object line padded by an ignored field: longer than the
\* fallback text limit, with a blank as its last character within the limit.
PaddedText ==
  [i \in 1..(FallbackTextLimit + 2) |->
     IF i = 1 THEN "{" ELSE IF i = FallbackTextLimit THEN " " ELSE "x"]

PaddedRaws == SeqsUpTo({ EventLine(<<"{", "s", "}">>, "speak", <<"h", "i">>), EventLine(PaddedText,
        "thought", <<"a", "b", "d">>), RawLine(PaddedText, "not-json") }, MaxLines)

EVENT_SET == {"speak", "action", "thought"}
VISIBILITY_SET == {"public", "private"}
ORIGIN_SET == {"roomie", "director", "repair"}

clamp(value, min, max) == Max(min, Min(max, value))

toSafeInt(value, fallback) == IF ~value.has THEN fallback ELSE value.v

sanitizeType(value) == IF value \in EVENT_SET THEN value ELSE ""

sanitizeVisibility(value, fallback) == IF value \in VISIBILITY_SET THEN value ELSE fallback

sanitizeOrigin(value, fallback) == IF value \in ORIGIN_SET THEN value ELSE fallback

buildFallbackSpeakEvent(author, content, beatId, eventId, origin) ==
  [type |-> "speak", author |-> author, content |-> compact(content), eventId |-> eventId,
   beatId |-> beatId, schemaVersion |-> THEATRICAL_EVENT_SCHEMA_VERSION,
   visibility |-> "public", intensity |-> 2, origin |-> origin]

\* LineReason with one reason for every line that is not a JSON object.
LineReasonOneJsonReason(line, defaultAuthor) ==
  CASE line.kind \in {"not-json", "not-object"} -> "invalid-json-line"
    [] sanitizeType(line.type) = "" -> "invalid-type"
    [] Trim(line.author) = <<>> /\ defaultAuthor = <<>> -> "missing-author"
    [] compact(line.content) = <<>> -> "empty-content"
    [] OTHER -> ""

\* The reason a line is rejected for, "" when it is a well-formed event.
LineReason(line, defaultAuthor) ==
  CASE line.kind = "not-json" -> "invalid-json-line"
    [] line.kind = "not-object" -> "invalid-object"
    [] sanitizeType(line.type) = "" -> "invalid-type"
    [] Trim(line.author) = <<>> /\ defaultAuthor = <<>> -> "missing-author"
    [] compact(line.content) = <<>> -> "empty-content"
    [] OTHER -> ""

\* LineEvent with one visibility default for every type and no clamp.
LineEventPlainDefaults(line, defaultAuthor, defaultBeatId, origin, generatedId) ==
  LET type == sanitizeType(line.type)
  IN  [type |-> type,
       author |-> IF Trim(line.author) # <<>> THEN Trim(line.author) ELSE defaultAuthor,
       content |-> compact(line.content),
       eventId |-> IF line.eventId # NoId THEN line.eventId ELSE generatedId,
       beatId |-> IF line.beatId # NoId THEN line.beatId ELSE defaultBeatId,
       schemaVersion |-> THEATRICAL_EVENT_SCHEMA_VERSION,
       visibility |-> sanitizeVisibility(line.visibility, "public"),
       intensity |-> toSafeInt(line.intensity, IF type = "speak" THEN 2 ELSE 3),
       origin |-> sanitizeOrigin(line.origin, origin)]

\* The event of a well-formed line; takes the next generated id when the
\* line has no eventId of its own.
LineEvent(line, defaultAuthor, defaultBeatId, origin, generatedId) ==
  LET type == sanitizeType(line.type)
  IN  [type |-> type,
       author |-> IF Trim(line.author) # <<>> THEN Trim(line.author) ELSE defaultAuthor,
       content |-> compact(line.content),
       eventId |-> IF line.eventId # NoId THEN line.eventId ELSE generatedId,
       beatId |-> IF line.beatId # NoId THEN line.beatId ELSE defaultBeatId,
       schemaVersion |-> THEATRICAL_EVENT_SCHEMA_VERSION,
       visibility |-> sanitizeVisibility(line.visibility, IF type = "thought" THEN "private" ELSE "public"),
       intensity |-> clamp(toSafeInt(line.intensity, IF type = "speak" THEN 2 ELSE 3), 1, 5),
       origin |-> sanitizeOrigin(line.origin, origin)]

NonBlankLines(raw) == SelectSeq(raw, LAMBDA line : line.kind # "blank")

\* ParseLines stepping over bad lines instead of failing.
RECURSIVE ParseLinesSkipsBad(_, _, _, _, _, _, _)
ParseLinesSkipsBad(lines, events, defaultAuthor, defaultBeatId, origin, idTurn, counter) ==
  IF lines = <<>>
    THEN [ok |-> events # <<>>, reason |-> IF events = <<>> THEN "no-events" ELSE "",
          events |-> events, counter |-> counter]
  ELSE LET line == Head(lines)
           nextCounter == IF line.eventId = NoId THEN counter + 1 ELSE counter
       IN  IF LineReason(line, defaultAuthor) # ""
             THEN ParseLinesSkipsBad(Tail(lines), events, defaultAuthor, defaultBeatId, origin,
                                     idTurn, counter)
           ELSE ParseLinesSkipsBad(Tail(lines),
                                   Append(events, LineEvent(line, defaultAuthor, defaultBeatId,
                                                            origin, EventId(idTurn, nextCounter))),
                                   defaultAuthor, defaultBeatId, origin, idTurn, nextCounter)

\* The loop over the lines: stops at the first bad line; counter is the
\* state of the event id factory, advanced once per generated id.
RECURSIVE ParseLines(_, _, _, _, _, _, _)
ParseLines(lines, events, defaultAuthor, defaultBeatId, origin, idTurn, counter) ==
  IF lines = <<>>
    THEN [ok |-> events # <<>>, reason |-> IF events = <<>> THEN "no-events" ELSE "",
          events |-> events, counter |-> counter]
  ELSE LET line == Head(lines)
           reason == LineReason(line, defaultAuthor)
           generates == line.eventId = NoId
           nextCounter == IF generates THEN counter + 1 ELSE counter
       IN  IF reason # ""
             THEN [ok |-> FALSE, reason |-> reason, events |-> <<>>, counter |-> counter]
           ELSE ParseLines(Tail(lines),
                           Append(events, LineEvent(line, defaultAuthor, defaultBeatId, origin,
                                                    EventId(idTurn, nextCounter))),
                           defaultAuthor, defaultBeatId, origin, idTurn, nextCounter)

parseNdjsonTheatricalEvents(raw, defaultAuthor, defaultBeatId, origin, idTurn, counter) ==
  IF NonBlankLines(raw) = <<>>
    THEN [ok |-> FALSE, reason |-> "empty-output", events |-> <<>>, counter |-> counter]
  ELSE ParseLines(NonBlankLines(raw), <<>>, defaultAuthor, defaultBeatId, origin, idTurn, counter)

\* The characters of an event type, as a template string spells them.
TypeChars(type) ==
  CASE type = "speak" -> <<"s", "p", "e", "a", "k">>
    [] type = "action" -> <<"a", "c", "t", "i", "o", "n">>
    [] type = "thought" -> <<"t", "h", "o", "u", "g", "h", "t">>
    [] OTHER -> <<>>

\* `${author.toLowerCase()}|${type}|${content.toLowerCase()}`
DedupeKey(event) ==
  toLowerCase(event.author) \o <<"|">> \o TypeChars(event.type) \o <<"|">>
    \o toLowerCase(event.content)

\* The loop of dedupeSimilarEvents over events, seen holding the keys met.
RECURSIVE DedupeLoop(_, _, _)
DedupeLoop(events, seen, deduped) ==
  IF events = <<>> THEN deduped
  ELSE LET event == Head(events)
       IN  IF event.type = "speak" THEN DedupeLoop(Tail(events), seen, Append(deduped, event))
           ELSE IF DedupeKey(event) \in seen THEN DedupeLoop(Tail(events), seen, deduped)
           ELSE DedupeLoop(Tail(events), seen \cup {DedupeKey(event)}, Append(deduped, event))

dedupeSimilarEvents(events) ==
  DedupeLoop(events, {}, <<>>)

\* The loop of applyBudgetCaps over the deduped events.
RECURSIVE CapLoop(_, _, _, _, _)
CapLoop(events, budget, actionCount, thoughtCount, next) ==
  IF events = <<>> THEN next
  ELSE LET event == Head(events)
           maxChars == Max(1, budget.maxThoughtCharsPerEvent)
           clipped == IF Len(event.content) > maxChars
                        THEN Trim(Slice(event.content, maxChars)) ELSE event.content
       IN  CASE event.type = "action" ->
                  IF actionCount >= Max(0, budget.maxActionEventsPerTurn)
                    THEN CapLoop(Tail(events), budget, actionCount, thoughtCount, next)
                    ELSE CapLoop(Tail(events), budget, actionCount + 1, thoughtCount,
                                 Append(next, event))
             [] event.type = "thought" ->
                  IF thoughtCount >= Max(0, budget.maxThoughtEventsPerTurn)
                    THEN CapLoop(Tail(events), budget, actionCount, thoughtCount, next)
                    ELSE CapLoop(Tail(events), budget, actionCount, thoughtCount + 1,
                                 IF clipped = <<>> THEN next
                                 ELSE Append(next, [event EXCEPT !.content = clipped]))
             [] OTHER -> CapLoop(Tail(events), budget, actionCount, thoughtCount, Append(next, event))

\* applyBudgetCaps without the caps: the deduped events as they are.
applyBudgetCapsUncapped(events, budget) ==
  dedupeSimilarEvents(events)

\* part_001 178-207.
applyBudgetCaps(events, budget) ==
  CapLoop(dedupeSimilarEvents(events), budget, 0, 0, <<>>)

eventsForAgentPrivateMemory(events) == SelectSeq(events, LAMBDA event : event.type = "thought")

eventsForSummarizer(events) ==
  SelectSeq(events, LAMBDA event :
    \/ event.type = "speak"
    \/ event.type = "action" /\ event.intensity >= 2
    \/ event.type = "thought" /\ event.visibility = "public" /\ Len(event.content) >= 24)

eventToHistoryLine(event) ==
  CASE event.type = "speak" -> event.author \o Str_Colon \o event.content
    [] event.type = "action" -> event.author \o Str_ActionTag \o event.content
    [] OTHER -> event.author \o Str_ThoughtTag \o event.content

\* The characters of a speaker output: its lines joined by newlines.
RECURSIVE RawText(_)
RawText(raw) ==
  IF raw = <<>> THEN <<>>
  ELSE IF Len(raw) = 1 THEN raw[1].text
  ELSE raw[1].text \o <<"NL">> \o RawText(Tail(raw))

FirstLine(s) ==
  LET breaks == SelectSeq(Positions(s), LAMBDA i : s[i] = "NL")
  IN  IF breaks = <<>> THEN s ELSE SubSeq(s, 1, breaks[1] - 1)

\* extractFallbackText without the cut to the text limit.
extractFallbackTextUncut(raw) ==
  LET trimmed == compact(RawText(raw))
  IN  IF trimmed = <<>> THEN Str_I
      ELSE Trim(FirstLine(trimmed))

extractFallbackText(raw) ==
  LET trimmed == compact(RawText(raw))
  IN  IF trimmed = <<>> THEN Str_I
      ELSE Slice(Trim(FirstLine(trimmed)), FallbackTextLimit)


(***************************************************************************)
(* Turn inputs                                                             *)
(***************************************************************************)
Budget(attempts, actions, thoughts, chars, target) ==
  [maxDirectorAttempts |-> attempts, maxActionEventsPerTurn |-> actions,
   maxThoughtEventsPerTurn |-> thoughts, maxThoughtCharsPerEvent |-> chars,
   targetP95TurnLatencyMs |-> target]

\* What the host configures: summarizer model, compaction settings (0 and
\* -1 stand for an absent value), room goal, model-assignment store.
Host(summarizer, every, keep, goal, assignmentStore) ==
  [summarizerModel |-> summarizer, compactEveryChars |-> every, compactKeepMessages |-> keep,
   chamberGoal |-> goal, hasAssignmentStore |-> assignmentStore]

TurnInput(message, n, maxAgents, budget, host) ==
  [userMessage |-> message, roomies |-> Roster(n), maxAgents |-> maxAgents,
   budget |-> budget, host |-> host]

\* The turns explored: message, roster size, maxAgents (0: absent), budget,
\* host configuration.
TurnInputs ==
  { TurnInput(<<" ", "NL">>, 1, 0, Budget(2, 2, 2, 5, 0), Host(TRUE, 1, 1, <<"g">>, TRUE)),
    TurnInput(<<" ", "g", "o">>, 0, 0, Budget(2, 2, 2, 5, 0), Host(TRUE, 1, 1, <<"g">>, TRUE)),
    TurnInput(<<" ", "g", "o">>, 1, 0, Budget(1, 2, 1, 0, 2), Host(TRUE, 1, 0, <<>>, TRUE)),
    TurnInput(<<" ", "g", "o">>, 2, 1, Budget(0, 0, 0, 0, 0), Host(FALSE, 1, 1, <<>>, FALSE)),
    TurnInput(<<"g", "o">>, 2, 0, Budget(3, 2, 2, 2, 0), Host(TRUE, 0, -1, <<"g">>, TRUE)),
    TurnInput(<<"g", "o">>, 1, 0, Budget(2, 1, 1, 5, 2), Host(TRUE, 1, 1, <<"g">>, FALSE)),
    TurnInput(<<"g", "o">>, 1, 0, Budget(2, 1, 1, 5, 1), Host(FALSE, 1, 1, <<>>, FALSE)) }

Summaries == { <<" ">>, <<"s", " ", " ", "m">> }

NoInput ==
  [userMessage |-> <<>>, roomies |-> <<>>, maxAgents |-> 0, budget |-> Budget(0, 0, 0, 0, 0),
   host |-> Host(FALSE, 0, 0, <<>>, FALSE)]

(***************************************************************************)
(* State                                                                   *)
(***************************************************************************)
createInitialRoomState ==
  [shared |-> [goal |-> <<>>, summary_window |-> <<>>, last_messages |-> <<>>,
               agent_memory |-> [i \in RoomieIds |-> <<>>], turn_index |-> 0],
   runtime |-> [turn_index |-> 0, speaker_plan |-> <<>>, speaker_outputs |-> <<>>,
                turn_trace |-> <<>>, last_user_message |-> <<>>,
                director_plan_history |-> <<>>, theatrical_contract_version |-> 0]]

NoAcc ==
  [allEvents |-> <<>>, turnHistoryLines |-> <<>>, privateMemory |-> <<>>,
   dedupeKeySet |-> {}, actionUsed |-> 0, thoughtUsed |-> 0, counter |-> 0,
   callbacks |-> <<>>, prompts |-> <<>>, offered |-> <<>>, admitted |-> <<>>,
   beatLog |-> <<>>]

NoOutcome == [status |-> "none", error |-> "", events |-> <<>>, directorPlan |-> NoPlan]

VARIABLES
  store,          \* the RoomState the host's state store holds
  assignments,    \* number of saveModelAssignment writes
  ops,            \* external operations issued, in order
  warnings,       \* logger.warn messages, in order
  pc,             \* where the turn stands
  elapsed,        \* Date.now() - turnStartedAt
  input,          \* RoomTurnInputV3 of the turn
  state,          \* the loaded RoomState
  shared,         \* working SharedState
  activeRoomies,
  directorTrail,  \* whether each director output validated, in order
  directorReason, \* reason of the latest validation ("" when it passed)
  directorAttempts,
  directorPlan,
  acc,            \* turn-scoped accumulators of the beat loop
  index,          \* beat loop index (1-based)
  summarizedShared, \* SharedState after the beats, then after compaction
  outcome,        \* what the caller gets: result or error
  turns,          \* the turns already returned to the caller, in order
  call            \* a call of an exported function: its arguments and results

vars ==
  <<store, assignments, ops, warnings, pc, elapsed, input, state, shared, activeRoomies,
    directorTrail, directorReason, directorAttempts, directorPlan, acc, index,
    summarizedShared, outcome, turns, call>>

\* An external operation as logged: its name, the beat it belongs to (0: none),
\* the clock when it was issued and whether it threw.
Op(name, beat) == [op |-> name, beat |-> beat, at |-> elapsed, threw |-> FALSE]

Threw(name, beat) == [op |-> name, beat |-> beat, at |-> elapsed, threw |-> TRUE]

\* No call of an exported function on its own.
NoCall ==
  [fn |-> "", events |-> <<>>, budget |-> Budget(0, 0, 0, 0, 0), raw |-> <<>>,
   defaultAuthor |-> <<>>, origin |-> "", roomies |-> <<>>, turnIndex |-> 0,
   results |-> <<>>]

InitTurn ==
  /\ store = createInitialRoomState
  /\ assignments = 0
  /\ ops = <<>>
  /\ warnings = <<>>
  /\ pc = "idle"
  /\ elapsed = 0
  /\ input = NoInput
  /\ state = createInitialRoomState
  /\ shared = createInitialRoomState.shared
  /\ activeRoomies = <<>>
  /\ directorTrail = <<>>
  /\ directorReason = ""
  /\ directorAttempts = 0
  /\ directorPlan = NoPlan
  /\ acc = NoAcc
  /\ index = 0
  /\ summarizedShared = createInitialRoomState.shared
  /\ outcome = NoOutcome
  /\ turns = <<>>

Init == InitTurn /\ call = NoCall

\* retryAllowed without the latency guard.
retryAllowedAlways(budget, now) == TRUE

retryAllowed(budget, now) ==
  LET target == Max(0, budget.targetP95TurnLatencyMs)
  IN  IF target = 0 THEN TRUE ELSE now < (target * 8) \div 10

MaxDirectorAttemptsOf(budget) ==
  Max(1, Min(3, IF budget.maxDirectorAttempts = 0 THEN 1 ELSE budget.maxDirectorAttempts))

ActiveRoomiesOf(in) ==
  LET maxAgents == IF in.maxAgents > 0 THEN in.maxAgents ELSE Len(in.roomies)
  IN  SubSeq(in.roomies, 1, Min(Len(in.roomies), Max(1, maxAgents)))

RoomieById(in, id) == CHOOSE r \in Range(in.roomies) : r.id = id

\* buildHistoryLines for the loaded messages.
RECURSIVE buildHistoryLines(_, _)
buildHistoryLines(sharedMessages, in) ==
  IF sharedMessages = <<>> THEN <<>>
  ELSE LET message == Head(sharedMessages)
           rest == buildHistoryLines(Tail(sharedMessages), in)
           text == compact(message.text)
       IN  IF message.role = "user" THEN <<<<"U", "s", "e", "r">> \o Str_Colon \o message.text>> \o rest
           ELSE IF text = <<>> THEN rest
           ELSE IF \E i \in DOMAIN text : text[i] = ":" THEN <<text>> \o rest
           ELSE LET known == \E r \in Range(in.roomies) : r.id = message.agent_id
                    name == IF known THEN RoomieById(in, message.agent_id).name
                            ELSE <<"R", "o", "o", "m", "i", "e">>
                IN  <<name \o Str_Colon \o text>> \o rest

(***************************************************************************)
(* Steps of runRoomTurnTheatricalV3                                        *)
(***************************************************************************)
Fail(reason) ==
  /\ pc' = "failed"
  /\ outcome' = [NoOutcome EXCEPT !.status = "error", !.error = reason]

\* The call: input validation, turnStartedAt.
Invoke(in) ==
  /\ pc = "idle"
  /\ input' = in
  /\ elapsed' = 0
  /\ IF compact(in.userMessage) = <<>>
       THEN Fail("User message is required")
       ELSE pc' = "loadState" /\ outcome' = outcome
  /\ UNCHANGED <<store, assignments, ops, warnings, state, shared, activeRoomies,
                 directorTrail, directorReason, directorAttempts, directorPlan, acc, index,
                 summarizedShared, turns, call>>

\* LoadState without the check that a roomie is active.
LoadStateUnchecked ==
  /\ pc = "loadState"
  /\ ops' = Append(ops, Op("loadState", 0))
  /\ state' = store
  /\ shared' = store.shared
  /\ activeRoomies' = ActiveRoomiesOf(input)
  /\ pc' = IF input.host.hasAssignmentStore THEN "resolveRoomieModels" ELSE "director"
  /\ UNCHANGED <<store, assignments, warnings, elapsed, input, directorTrail, directorReason,
                 directorAttempts, directorPlan, acc, index, summarizedShared, outcome, turns,
                 call>>

\* await deps.loadState, then runTurn up to its first await.
LoadState ==
  /\ pc = "loadState"
  /\ ops' = Append(ops, Op("loadState", 0))
  /\ state' = store
  /\ shared' = IF input.host.chamberGoal # <<>> /\ store.shared.goal = <<>>
                 THEN [store.shared EXCEPT !.goal = input.host.chamberGoal]
                 ELSE store.shared
  /\ activeRoomies' = ActiveRoomiesOf(input)
  /\ IF ActiveRoomiesOf(input) = <<>>
       THEN Fail("At least one roomie is required for v3")
       ELSE /\ pc' = IF input.host.hasAssignmentStore THEN "resolveRoomieModels" ELSE "director"
            /\ outcome' = outcome
  /\ UNCHANGED <<store, assignments, warnings, elapsed, input, directorTrail, directorReason,
                 directorAttempts, directorPlan, acc, index, summarizedShared, turns, call>>

\* resolveRoomieModels with a model-assignment store: read, then write.
ResolveRoomieModels ==
  /\ pc = "resolveRoomieModels"
  /\ ops' = ops \o <<Op("getModelAssignment", 0), Op("saveModelAssignment", 0)>>
  /\ assignments' = assignments + 1
  /\ pc' = "director"
  /\ UNCHANGED <<store, warnings, elapsed, input, state, shared, activeRoomies, directorTrail,
                 directorReason, directorAttempts, directorPlan, acc, index, summarizedShared,
                 outcome, turns, call>>

\* The accumulators as the beat loop finds them (engine.ts 467-472), with the
\* logs the properties read: callbacks made, speaker prompts built, events
\* offered to emitEventIfAllowed, dedupe keys of the events it admitted.
StartAcc ==
  [allEvents |-> <<>>,
   turnHistoryLines |-> buildHistoryLines(shared.last_messages, input),
   privateMemory |-> shared.agent_memory,
   dedupeKeySet |-> {}, actionUsed |-> 0, thoughtUsed |-> 0, counter |-> 0,
   callbacks |-> <<>>, prompts |-> <<>>, offered |-> <<>>, admitted |-> <<>>,
   beatLog |-> <<>>]

\* The plan the turn uses, from the last validation result (engine.ts 438-456).
ResolvePlan(parsedPlan, attempts) ==
  IF parsedPlan.ok
    THEN [parsedPlan.plan EXCEPT !.trace.attempts = attempts]
    ELSE buildFallbackPlan(activeRoomies, shared.turn_index, parsedPlan.reason, 1)

EnterBeats(parsedPlan, attempts) ==
  /\ directorPlan' = ResolvePlan(parsedPlan, attempts)
  /\ acc' = StartAcc
  /\ index' = 1
  /\ pc' = "speaker"

\* The first director call returns raw.
DirectorCall(raw) ==
  /\ pc = "director"
  /\ ops' = Append(ops, Op("director", 0))
  /\ elapsed' = elapsed
  /\ directorAttempts' = 1
  /\ LET parsedPlan == parseDirectorPlanSchema(raw, activeRoomies, shared.turn_index, 2)
         canRetryDirector == MaxDirectorAttemptsOf(input.budget) > 1 /\ retryAllowed(input.budget, elapsed)
     IN  /\ directorTrail' = <<parsedPlan.ok>>
         /\ directorReason' = parsedPlan.reason
         /\ IF ~parsedPlan.ok /\ canRetryDirector
              THEN /\ pc' = "directorRepair"
                   /\ UNCHANGED <<directorPlan, acc, index, warnings>>
              ELSE /\ EnterBeats(parsedPlan, 1)
                   /\ warnings' = IF ~parsedPlan.ok /\ MaxDirectorAttemptsOf(input.budget) > 1
                                    THEN Append(warnings, "room-v3.director-retry-skipped")
                                    ELSE warnings
  /\ UNCHANGED <<store, assignments, input, state, shared, activeRoomies, summarizedShared,
                 outcome, turns, call>>

\* TagRepair that leaves the validated plan's trace as the parser wrote it.
TagRepairKeeps(reparsed) == reparsed

\* engine.ts 427-429: a validated repair output is tagged as such.
TagRepair(reparsed) ==
  IF reparsed.ok
    THEN [reparsed EXCEPT !.plan.trace = [source |-> "repair", attempts |-> 2, reason |-> ""]]
    ELSE reparsed

\* The director repair call returns raw.
DirectorRepair(raw) ==
  /\ pc = "directorRepair"
  /\ ops' = Append(ops, Op("directorRepair", 0))
  /\ elapsed' = elapsed
  /\ directorAttempts' = 2
  /\ LET parsedPlan == TagRepair(parseDirectorPlanSchema(raw, activeRoomies, shared.turn_index, 2))
     IN  /\ directorTrail' = Append(directorTrail, parsedPlan.ok)
         /\ directorReason' = parsedPlan.reason
         /\ EnterBeats(parsedPlan, 2)
  /\ UNCHANGED <<store, assignments, warnings, input, state, shared, activeRoomies,
                 summarizedShared, outcome, turns, call>>

(***************************************************************************)
(* The beat loop                                                           *)
(***************************************************************************)
\* PushEvent that tells onEvent of the public events only.
PushEventQuietThoughts(a, event) ==
  [a EXCEPT !.allEvents = Append(@, event),
            !.turnHistoryLines = IF event.type # "thought" THEN Append(@, eventToHistoryLine(event)) ELSE @,
            !.callbacks = IF event.type = "thought" THEN @
                          ELSE Append(@, [kind |-> "onEvent", beatId |-> event.beatId,
                                          eventId |-> event.eventId])]

\* The tail of emitEventIfAllowed: allEvents.push, history line, onEvent
\* (engine.ts 496-502).
PushEvent(a, event) ==
  [a EXCEPT !.allEvents = Append(@, event),
            !.turnHistoryLines = IF event.type # "thought" THEN Append(@, eventToHistoryLine(event)) ELSE @,
            !.callbacks = Append(@, [kind |-> "onEvent", beatId |-> event.beatId, eventId |-> event.eventId])]

ClipThought(content, budget) ==
  LET maxChars == Max(1, budget.maxThoughtCharsPerEvent)
  IN  IF Len(content) > maxChars THEN Trim(Slice(content, maxChars)) ELSE content

\* emitEventIfAllowed without the turn-wide duplicate check.
emitEventIfAllowedNoDedupe(a, event, budget) ==
  IF event.type = "action"
    THEN IF a.actionUsed >= Max(0, budget.maxActionEventsPerTurn) THEN a
         ELSE PushEvent([a EXCEPT !.dedupeKeySet = @ \cup {DedupeKey(event)}, !.actionUsed = @ + 1,
                                  !.admitted = Append(@, DedupeKey(event))], event)
  ELSE IF event.type = "thought"
    THEN IF a.thoughtUsed >= Max(0, budget.maxThoughtEventsPerTurn) THEN a
         ELSE PushEvent([a EXCEPT !.dedupeKeySet = @ \cup {DedupeKey(event)}, !.thoughtUsed = @ + 1,
                                  !.admitted = Append(@, DedupeKey(event))],
                        [event EXCEPT !.content = ClipThought(event.content, budget)])
  ELSE PushEvent(a, event)

\* emitEventIfAllowed with a zero count cap read as "no cap".
emitEventIfAllowedZeroUnlimited(a, event, budget) ==
  IF event.type = "action"
    THEN IF /\ budget.maxActionEventsPerTurn > 0
            /\ a.actionUsed >= budget.maxActionEventsPerTurn THEN a
         ELSE IF DedupeKey(event) \in a.dedupeKeySet THEN a
         ELSE PushEvent([a EXCEPT !.dedupeKeySet = @ \cup {DedupeKey(event)}, !.actionUsed = @ + 1,
                                  !.admitted = Append(@, DedupeKey(event))], event)
  ELSE IF event.type = "thought"
    THEN IF /\ budget.maxThoughtEventsPerTurn > 0
            /\ a.thoughtUsed >= budget.maxThoughtEventsPerTurn THEN a
         ELSE IF DedupeKey(event) \in a.dedupeKeySet THEN a
         ELSE PushEvent([a EXCEPT !.dedupeKeySet = @ \cup {DedupeKey(event)}, !.thoughtUsed = @ + 1,
                                  !.admitted = Append(@, DedupeKey(event))],
                        [event EXCEPT !.content = ClipThought(event.content, budget)])
  ELSE PushEvent(a, event)

\* emitEventIfAllowed counting an event against its cap before the duplicate
\* check.
emitEventIfAllowedCountsDuplicates(a, event, budget) ==
  IF event.type = "action"
    THEN IF a.actionUsed >= Max(0, budget.maxActionEventsPerTurn) THEN a
         ELSE IF DedupeKey(event) \in a.dedupeKeySet THEN [a EXCEPT !.actionUsed = @ + 1]
         ELSE PushEvent([a EXCEPT !.dedupeKeySet = @ \cup {DedupeKey(event)}, !.actionUsed = @ + 1,
                                  !.admitted = Append(@, DedupeKey(event))], event)
  ELSE IF event.type = "thought"
    THEN IF a.thoughtUsed >= Max(0, budget.maxThoughtEventsPerTurn) THEN a
         ELSE IF DedupeKey(event) \in a.dedupeKeySet THEN [a EXCEPT !.thoughtUsed = @ + 1]
         ELSE LET counted == [a EXCEPT !.dedupeKeySet = @ \cup {DedupeKey(event)}, !.thoughtUsed = @ + 1]
                  clipped == ClipThought(event.content, budget)
              IN  IF clipped = <<>> THEN counted
                  ELSE PushEvent([counted EXCEPT !.admitted = Append(@, DedupeKey(event))],
                                 [event EXCEPT !.content = clipped])
  ELSE PushEvent(a, event)

\* emitEventIfAllowed (engine.ts 474-503).
emitEventIfAllowed(a, event, budget) ==
  IF event.type = "action"
    THEN IF a.actionUsed >= Max(0, budget.maxActionEventsPerTurn) THEN a
         ELSE IF DedupeKey(event) \in a.dedupeKeySet THEN a
         ELSE PushEvent([a EXCEPT !.dedupeKeySet = @ \cup {DedupeKey(event)}, !.actionUsed = @ + 1,
                                  !.admitted = Append(@, DedupeKey(event))], event)
  ELSE IF event.type = "thought"
    THEN IF a.thoughtUsed >= Max(0, budget.maxThoughtEventsPerTurn) THEN a
         ELSE IF DedupeKey(event) \in a.dedupeKeySet THEN a
         ELSE LET counted == [a EXCEPT !.dedupeKeySet = @ \cup {DedupeKey(event)}, !.thoughtUsed = @ + 1]
                  clipped == ClipThought(event.content, budget)
              IN  IF clipped = <<>> THEN counted
                  ELSE PushEvent([counted EXCEPT !.admitted = Append(@, DedupeKey(event))],
                                 [event EXCEPT !.content = clipped])
  ELSE PushEvent(a, event)

RECURSIVE EmitAll(_, _, _)
EmitAll(a, events, budget) ==
  IF events = <<>> THEN a
  ELSE EmitAll(emitEventIfAllowed([a EXCEPT !.offered = Append(@, Head(events))], Head(events), budget),
               Tail(events), budget)

\* AcceptLoop without the permission filter.
RECURSIVE AcceptLoopAllTypes(_, _, _, _)
AcceptLoopAllTypes(events, accepted, beat, roomie) ==
  IF events = <<>> THEN accepted
  ELSE LET next == Append(accepted, [Head(events) EXCEPT !.author = roomie.name, !.beatId = beat.beatId])
       IN  IF Len(next) >= beat.maxEvents THEN next
           ELSE AcceptLoopAllTypes(Tail(events), next, beat, roomie)

\* AcceptLoop that counts the events it skips towards maxEvents.
AcceptLoopCutsFirst(events, accepted, beat, roomie) ==
  LET first == SubSeq(events, 1, Min(Len(events), beat.maxEvents))
      allowed == SelectSeq(first, LAMBDA event : /\ ~(event.type = "action" /\ ~beat.allowAction)
                                                /\ ~(event.type = "thought" /\ ~beat.allowThought))
  IN  accepted \o [i \in 1..Len(allowed) |->
                     [allowed[i] EXCEPT !.author = roomie.name, !.beatId = beat.beatId]]

\* AcceptLoop that leaves the author and the beatId as the output gave them.
RECURSIVE AcceptLoopAsParsed(_, _, _, _)
AcceptLoopAsParsed(events, accepted, beat, roomie) ==
  IF events = <<>> THEN accepted
  ELSE LET event == Head(events)
       IN  IF \/ event.type = "action" /\ ~beat.allowAction
              \/ event.type = "thought" /\ ~beat.allowThought
             THEN AcceptLoopAsParsed(Tail(events), accepted, beat, roomie)
           ELSE LET next == Append(accepted, event)
                IN  IF Len(next) >= beat.maxEvents THEN next
                    ELSE AcceptLoopAsParsed(Tail(events), next, beat, roomie)

\* Permission filter and maxEvents cut over the parsed events (engine.ts 590-602).
RECURSIVE AcceptLoop(_, _, _, _)
AcceptLoop(events, accepted, beat, roomie) ==
  IF events = <<>> THEN accepted
  ELSE LET event == Head(events)
       IN  IF \/ event.type = "action" /\ ~beat.allowAction
              \/ event.type = "thought" /\ ~beat.allowThought
             THEN AcceptLoop(Tail(events), accepted, beat, roomie)
           ELSE LET next == Append(accepted, [event EXCEPT !.author = roomie.name, !.beatId = beat.beatId])
                IN  IF Len(next) >= beat.maxEvents THEN next
                    ELSE AcceptLoop(Tail(events), next, beat, roomie)

HasSpeak(events) == \E i \in DOMAIN events : events[i].type = "speak"

\* AcceptedOf without the synthesized speak event.
AcceptedOfNoFallback(parsed, raw, beat, roomie, idTurn, counter) ==
  [events |-> IF parsed.ok THEN AcceptLoop(parsed.events, <<>>, beat, roomie) ELSE <<>>,
   counter |-> counter, fallback |-> FALSE]

\* The beat's final accepted list and whether the fallback took an event id.
AcceptedOf(parsed, raw, beat, roomie, idTurn, counter) ==
  LET accepted == IF parsed.ok THEN AcceptLoop(parsed.events, <<>>, beat, roomie) ELSE <<>>
  IN  IF accepted = <<>> \/ ~HasSpeak(accepted)
        THEN [events |-> <<buildFallbackSpeakEvent(roomie.name, extractFallbackText(raw), beat.beatId,
                                                   EventId(idTurn, counter + 1),
                                                   IF parsed.ok THEN "roomie" ELSE "repair")>>,
              counter |-> counter + 1, fallback |-> TRUE]
        ELSE [events |-> accepted, counter |-> counter, fallback |-> FALSE]

\* AppendNotes keeping the oldest notes when the list is full.
AppendNotesKeepsOldest(memory, id, notes) ==
  IF notes = <<>> THEN memory
  ELSE [memory EXCEPT ![id] = SubSeq(@ \o notes, 1, Min(Len(@ \o notes), MAX_AGENT_MEMORY))]

\* privateMemory[roomie.id] after the beat's thoughts (engine.ts 622-626).
AppendNotes(memory, id, notes) ==
  IF notes = <<>> THEN memory
  ELSE [memory EXCEPT ![id] = LastN(@ \o notes, MAX_AGENT_MEMORY)]

NotesOf(events) == [i \in 1..Len(events) |-> events[i].content]

\* From the parsed output to the end of the beat (engine.ts 590-626).
FinishBeat(a, parsed, raw, beat, roomie) ==
  LET final == AcceptedOf(parsed, raw, beat, roomie, shared.turn_index + 1, parsed.counter)
      emitted == EmitAll([a EXCEPT !.counter = final.counter], final.events, input.budget)
      privateThoughts == NotesOf(eventsForAgentPrivateMemory(final.events))
  IN  [emitted EXCEPT !.privateMemory = AppendNotes(@, roomie.id, privateThoughts),
                      !.beatLog = Append(@, [beatId |-> beat.beatId, parsed |-> parsed.ok,
                                             accepted |-> final.events,
                                             fallback |-> final.fallback])]

(***************************************************************************)
(* After the beats: history and compaction                                 *)
(***************************************************************************)
\* engine.ts 629-644: a turn without any event gets one from the director.
WithTurnFallback(a) ==
  IF a.allEvents # <<>> \/ activeRoomies = <<>> THEN a
  ELSE LET event == buildFallbackSpeakEvent(activeRoomies[1].name, <<"I", " ", "n", "e", "e", "d",
          " ", "o", "n", "e", " ", "m", "o", "r", "e", " ", "b", "e", "a", "t", ".">>,
                                            BeatId(shared.turn_index, 1),
                                            EventId(shared.turn_index + 1, a.counter + 1), "director")
       IN  [a EXCEPT !.allEvents = Append(@, event), !.counter = @ + 1,
                     !.callbacks = Append(@, [kind |-> "onEvent", beatId |-> event.beatId,
                                              eventId |-> event.eventId])]

AgentIdOfBeat(plan, beatId) ==
  IF \E k \in DOMAIN plan.beats : plan.beats[k].beatId = beatId
    THEN plan.beats[CHOOSE k \in DOMAIN plan.beats :
                      /\ plan.beats[k].beatId = beatId
                      /\ \A j \in 1..(k - 1) : plan.beats[j].beatId # beatId].agentId
    ELSE 0

NonThought(events) == SelectSeq(events, LAMBDA event : event.type # "thought")

\* AgentEntries with an entry for every event, thoughts included.
AgentEntriesWithThoughts(events, plan, turnIndex) ==
  [i \in 1..Len(events) |->
     [role |-> "agent", agent_id |-> AgentIdOfBeat(plan, events[i].beatId),
      text |-> eventToHistoryLine(events[i]), turn_index |-> turnIndex]]

\* agentEntries (engine.ts 652-659).
AgentEntries(events, plan, turnIndex) ==
  LET shown == NonThought(events)
  IN  [i \in 1..Len(shown) |->
         [role |-> "agent", agent_id |-> AgentIdOfBeat(plan, shown[i].beatId),
          text |-> eventToHistoryLine(shown[i]), turn_index |-> turnIndex]]

UserEntry(turnIndex) ==
  [role |-> "user", agent_id |-> 0, text |-> compact(input.userMessage), turn_index |-> turnIndex]

RECURSIVE SumLen(_)
SumLen(messages) == IF messages = <<>> THEN 0 ELSE Len(Head(messages).text) + SumLen(Tail(messages))

estimateSharedChars(sh) == Len(sh.goal) + Len(sh.summary_window) + SumLen(sh.last_messages)

\* trimMessages keeping the oldest messages.
trimMessagesKeepsOldest(messages, keepCount) ==
  IF keepCount <= 0 THEN <<>> ELSE SubSeq(messages, 1, Min(keepCount, Len(messages)))

\* engine.ts 52-56.
trimMessages(messages, keepCount) ==
  IF keepCount <= 0 THEN <<>> ELSE LastN(messages, keepCount)

CompactEveryCharsOf(in) ==
  IF in.host.compactEveryChars > 0 THEN in.host.compactEveryChars ELSE DEFAULT_COMPACT_EVERY_CHARS

CompactKeepMessagesOf(in) ==
  IF in.host.compactKeepMessages >= 0 THEN in.host.compactKeepMessages ELSE DEFAULT_COMPACT_KEEP_MESSAGES

ShouldCompact(sh) == estimateSharedChars(sh) >= CompactEveryCharsOf(input)

CurrentBeat == directorPlan.beats[index]

CurrentRoomie == RoomieById(input, CurrentBeat.agentId)

SharedWithMessages(a) ==
  [shared EXCEPT !.last_messages = @ \o <<UserEntry(shared.turn_index)>>
                                     \o AgentEntries(a.allEvents, directorPlan, shared.turn_index),
                 !.agent_memory = a.privateMemory]

\* EndBeat with a loop that steps over the following beat.
EndBeatSkips(a) ==
  /\ index' = index + 2
  /\ IF index + 2 <= Len(directorPlan.beats)
       THEN /\ acc' = a
            /\ pc' = "speaker"
            /\ UNCHANGED summarizedShared
       ELSE /\ acc' = WithTurnFallback(a)
            /\ summarizedShared' = SharedWithMessages(WithTurnFallback(a))
            /\ pc' = IF /\ ShouldCompact(SharedWithMessages(WithTurnFallback(a)))
                        /\ input.host.summarizerModel
                       THEN "summarizer" ELSE "saveState"

\* The end of a beat with accumulators a: the next beat, or after the last
\* one engine.ts 629-681 up to the compaction decision.
EndBeat(a) ==
  /\ index' = index + 1
  /\ IF index + 1 <= Len(directorPlan.beats)
       THEN /\ acc' = a
            /\ pc' = "speaker"
            /\ UNCHANGED summarizedShared
       ELSE /\ acc' = WithTurnFallback(a)
            /\ summarizedShared' = SharedWithMessages(WithTurnFallback(a))
            /\ pc' = IF /\ ShouldCompact(SharedWithMessages(WithTurnFallback(a)))
                        /\ input.host.summarizerModel
                       THEN "summarizer" ELSE "saveState"

\* BeginBeat whose prompt shows the history as it was loaded.
BeginBeatLoadedHistory(a) ==
  [a EXCEPT !.callbacks = Append(@, [kind |-> "onBeatStart", beatId |-> CurrentBeat.beatId,
          eventId |-> NoId]),
            !.prompts = Append(@, [agentId |-> CurrentRoomie.id,
                                   historyLines |-> buildHistoryLines(shared.last_messages, input),
                                   agentMemory |-> a.privateMemory[CurrentRoomie.id]])]

\* onBeatStart and the speaker prompt of the current beat (engine.ts 510-530).
BeginBeat(a) ==
  [a EXCEPT !.callbacks = Append(@, [kind |-> "onBeatStart", beatId |-> CurrentBeat.beatId,
          eventId |-> NoId]),
            !.prompts = Append(@, [agentId |-> CurrentRoomie.id,
                                   historyLines |-> a.turnHistoryLines,
                                   agentMemory |-> a.privateMemory[CurrentRoomie.id]])]

\* The primary speaker call of the current beat returns raw.
SpeakerCall(raw) ==
  /\ pc = "speaker"
  /\ ops' = Append(ops, Op("speaker", index))
  /\ elapsed' = elapsed
  /\ LET begun == BeginBeat(acc)
         parsed == parseNdjsonTheatricalEvents(raw, CurrentRoomie.name, CurrentBeat.beatId, "roomie",
                                               shared.turn_index + 1, begun.counter)
         canRetrySpeaker == retryAllowed(input.budget, elapsed)
     IN  /\ IF ~parsed.ok /\ canRetrySpeaker
              THEN /\ pc' = "speakerRepair"
                   /\ acc' = [begun EXCEPT !.counter = parsed.counter]
                   /\ UNCHANGED <<index, warnings, summarizedShared>>
              ELSE /\ EndBeat(FinishBeat(begun, parsed, raw, CurrentBeat, CurrentRoomie))
                   /\ warnings' = IF ~parsed.ok THEN Append(warnings, "room-v3.speaker-retry-skipped")
                                  ELSE warnings
  /\ UNCHANGED <<store, assignments, input, state, shared, activeRoomies, directorTrail,
                 directorReason, directorAttempts, directorPlan, outcome, turns, call>>

\* SpeakerRepair that asks for another repair while the output does not parse.
SpeakerRepairUntilParsed(raw) ==
  /\ pc = "speakerRepair"
  /\ ops' = Append(ops, Op("speakerRepair", index))
  /\ elapsed' = elapsed
  /\ LET parsed == parseNdjsonTheatricalEvents(raw, CurrentRoomie.name, CurrentBeat.beatId, "repair",
                                               shared.turn_index + 1, acc.counter)
     IN  IF ~parsed.ok
           THEN /\ pc' = "speakerRepair"
                /\ acc' = [acc EXCEPT !.counter = parsed.counter]
                /\ UNCHANGED <<index, summarizedShared>>
           ELSE EndBeat(FinishBeat(acc, parsed, raw, CurrentBeat, CurrentRoomie))
  /\ UNCHANGED <<store, assignments, warnings, input, state, shared, activeRoomies,
                 directorTrail, directorReason, directorAttempts, directorPlan, outcome, turns,
                 call>>

\* The speaker repair call of the current beat returns raw.
SpeakerRepair(raw) ==
  /\ pc = "speakerRepair"
  /\ ops' = Append(ops, Op("speakerRepair", index))
  /\ elapsed' = elapsed
  /\ LET parsed == parseNdjsonTheatricalEvents(raw, CurrentRoomie.name, CurrentBeat.beatId, "repair",
                                               shared.turn_index + 1, acc.counter)
     IN  EndBeat(FinishBeat(acc, parsed, raw, CurrentBeat, CurrentRoomie))
  /\ UNCHANGED <<store, assignments, warnings, input, state, shared, activeRoomies,
                 directorTrail, directorReason, directorAttempts, directorPlan, outcome, turns,
                 call>>

(***************************************************************************)
(* Summarizer and persistence                                              *)
(***************************************************************************)
\* Summarizer with a compaction that also clears the goal.
SummarizerClearsGoal(raw) ==
  /\ pc = "summarizer"
  /\ ops' = Append(ops, Op("summarizer", 0))
  /\ elapsed' = elapsed
  /\ summarizedShared' =
       [summarizedShared EXCEPT
          !.summary_window = IF compact(raw) # <<>> THEN compact(raw) ELSE @,
          !.last_messages = trimMessages(@, CompactKeepMessagesOf(input)),
          !.goal = <<>>]
  /\ pc' = "saveState"
  /\ UNCHANGED <<store, assignments, warnings, input, state, shared, activeRoomies,
                 directorTrail, directorReason, directorAttempts, directorPlan, acc, index,
                 outcome, turns, call>>

\* The summarizer call returns raw (engine.ts 691-709).
Summarizer(raw) ==
  /\ pc = "summarizer"
  /\ ops' = Append(ops, Op("summarizer", 0))
  /\ elapsed' = elapsed
  /\ summarizedShared' =
       [summarizedShared EXCEPT
          !.summary_window = IF compact(raw) # <<>> THEN compact(raw) ELSE @,
          !.last_messages = trimMessages(@, CompactKeepMessagesOf(input))]
  /\ pc' = "saveState"
  /\ UNCHANGED <<store, assignments, warnings, input, state, shared, activeRoomies,
                 directorTrail, directorReason, directorAttempts, directorPlan, acc, index,
                 outcome, turns, call>>

buildSpeakerOutputs(events, plan) ==
  LET spoken == SelectSeq(events, LAMBDA event : event.type = "speak")
  IN  [i \in 1..Len(spoken) |->
         [agent_id |-> AgentIdOfBeat(plan, spoken[i].beatId), text |-> spoken[i].content]]

\* NextState with a plan history that keeps its oldest plans when full.
NextStateKeepsOldestPlans ==
  [shared |-> [summarizedShared EXCEPT !.turn_index = shared.turn_index + 1],
   runtime |-> [state.runtime EXCEPT
      !.turn_index = shared.turn_index + 1,
      !.last_user_message = compact(input.userMessage),
      !.speaker_plan = [k \in 1..Len(directorPlan.beats) |-> directorPlan.beats[k].agentId],
      !.speaker_outputs = buildSpeakerOutputs(acc.allEvents, directorPlan),
      !.turn_trace = <<THEATRICAL_CONTRACT_VERSION, directorPlan.trace.attempts, Len(acc.allEvents)>>,
      !.director_plan_history = SubSeq(Append(@, directorPlan), 1,
                                       Min(Len(@) + 1, DIRECTOR_HISTORY_LIMIT)),
      !.theatrical_contract_version = THEATRICAL_CONTRACT_VERSION]]

\* NextState with the loaded turn index saved again.
NextStateSameIndex ==
  [shared |-> [summarizedShared EXCEPT !.turn_index = shared.turn_index],
   runtime |-> [state.runtime EXCEPT
      !.turn_index = shared.turn_index + 1,
      !.last_user_message = compact(input.userMessage),
      !.speaker_plan = [k \in 1..Len(directorPlan.beats) |-> directorPlan.beats[k].agentId],
      !.speaker_outputs = buildSpeakerOutputs(acc.allEvents, directorPlan),
      !.turn_trace = <<THEATRICAL_CONTRACT_VERSION, directorPlan.trace.attempts, Len(acc.allEvents)>>,
      !.director_plan_history = LastN(Append(@, directorPlan), DIRECTOR_HISTORY_LIMIT),
      !.theatrical_contract_version = THEATRICAL_CONTRACT_VERSION]]

\* nextState: the state the turn saves (engine.ts 711-737).
NextState ==
  [shared |-> [summarizedShared EXCEPT !.turn_index = shared.turn_index + 1],
   runtime |-> [state.runtime EXCEPT
      !.turn_index = shared.turn_index + 1,
      !.last_user_message = compact(input.userMessage),
      !.speaker_plan = [k \in 1..Len(directorPlan.beats) |-> directorPlan.beats[k].agentId],
      !.speaker_outputs = buildSpeakerOutputs(acc.allEvents, directorPlan),
      !.turn_trace = <<THEATRICAL_CONTRACT_VERSION, directorPlan.trace.attempts, Len(acc.allEvents)>>,
      !.director_plan_history = LastN(Append(@, directorPlan), DIRECTOR_HISTORY_LIMIT),
      !.theatrical_contract_version = THEATRICAL_CONTRACT_VERSION]]

\* await deps.saveState and the return to the caller (engine.ts 739-759).
SaveState ==
  /\ pc = "saveState"
  /\ ops' = Append(ops, Op("saveState", 0))
  /\ store' = NextState
  /\ pc' = "done"
  /\ outcome' = [status |-> "ok", error |-> "", events |-> acc.allEvents, directorPlan |-> directorPlan]
  /\ UNCHANGED <<assignments, warnings, elapsed, input, state, shared, activeRoomies,
                 directorTrail, directorReason, directorAttempts, directorPlan, acc, index,
                 summarizedShared, turns, call>>

\* GenerateTextThrows with the error caught and the turn carried on to the save.
GenerateTextThrowsSwallowed ==
  /\ pc \in {"director", "directorRepair", "speaker", "speakerRepair", "summarizer"}
  /\ ops' = Append(ops, Threw(pc, IF pc \in {"speaker", "speakerRepair"} THEN index ELSE 0))
  /\ pc' = "saveState"
  /\ UNCHANGED <<store, assignments, warnings, elapsed, input, state, shared, activeRoomies,
                 directorTrail, directorReason, directorAttempts, directorPlan, acc, index,
                 summarizedShared, outcome, turns, call>>

\* The generation call the turn is waiting for throws.
GenerateTextThrows ==
  /\ pc \in {"director", "directorRepair", "speaker", "speakerRepair", "summarizer"}
  /\ ops' = Append(ops, Threw(pc, IF pc \in {"speaker", "speakerRepair"} THEN index ELSE 0))
  /\ acc' = IF pc = "speaker" THEN BeginBeat(acc) ELSE acc
  /\ Fail("generateText failed")
  /\ UNCHANGED <<store, assignments, warnings, elapsed, input, state, shared, activeRoomies,
                 directorTrail, directorReason, directorAttempts, directorPlan, index,
                 summarizedShared, turns, call>>

\* A millisecond passes while a generation call is awaited.  The clock is
\* read only when a latency target is set (engine.ts 320-324).
Tick ==
  /\ pc \in {"director", "directorRepair", "speaker", "speakerRepair"}
  /\ input.budget.targetP95TurnLatencyMs > 0
  /\ elapsed < MaxElapsed
  /\ elapsed' = elapsed + 1
  /\ UNCHANGED <<store, assignments, ops, warnings, pc, input, state, shared, activeRoomies,
                 directorTrail, directorReason, directorAttempts, directorPlan, acc, index,
                 summarizedShared, outcome, turns, call>>

Next ==
  \/ \E in \in TurnInputs : Invoke(in)
  \/ LoadState
  \/ ResolveRoomieModels
  \/ \E raw \in DirectorRaws : DirectorCall(raw)
  \/ \E raw \in DirectorRaws : DirectorRepair(raw)
  \/ \E raw \in SpeakerRaws : SpeakerCall(raw)
  \/ \E raw \in SpeakerRaws : SpeakerRepair(raw)
  \/ \E raw \in Summaries : Summarizer(raw)
  \/ SaveState
  \/ GenerateTextThrows
  \/ Tick

Spec == Init /\ [][Next]_vars

(***************************************************************************)
(* Turns of a single active roomie whose speaker outputs have long lines.  *)
(***************************************************************************)

NextLongText ==
  \/ \E in \in {in \in TurnInputs : Len(ActiveRoomiesOf(in)) <= 1} : Invoke(in)
  \/ LoadState
  \/ ResolveRoomieModels
  \/ \E raw \in DirectorRaws : DirectorCall(raw)
  \/ \E raw \in DirectorRaws : DirectorRepair(raw)
  \/ \E raw \in PaddedRaws : SpeakerCall(raw)
  \/ \E raw \in PaddedRaws : SpeakerRepair(raw)
  \/ \E raw \in Summaries : Summarizer(raw)
  \/ SaveState
  \/ GenerateTextThrows
  \/ Tick

SpecLongText == Init /\ [][NextLongText]_vars

(***************************************************************************)
(* A series of turns of one room: the host calls runRoomTurnTheatricalV3   *)
(* again after a turn returned or threw; the state store keeps what the    *)
(* last successful turn saved.  One roomie whose beat may hold up to four  *)
(* events, so that the memory notes of a few turns pass MAX_AGENT_MEMORY.  *)
(***************************************************************************)
StyleBusy ==
  [allow_action |-> "absent", allow_thought |-> "true", max_events |-> RawInt(4), intent |-> ""]

SeriesSpeakLine == EventLine(<<"{", "s", "}">>, "speak", <<"h", "i">>)

SeriesThoughtLine(last) == EventLine(<<"{", "t", "}">>, "thought", <<"a", "b", last>>)

\* The thought contents the accepted events of the turn's beats hold for
\* roomie id, in beat order.
RECURSIVE TurnNotes(_, _)
TurnNotes(id, k) ==
  IF k = 0 THEN <<>>
  ELSE TurnNotes(id, k - 1) \o
       (IF directorPlan.beats[k].agentId = id
          THEN NotesOf(SelectSeq(acc.beatLog[k].accepted, LAMBDA e : e.type = "thought"))
          ELSE <<>>)

\* The turn returned or threw and the host starts over: everything scoped
\* to the call is gone, the store stays.
TurnOver ==
  /\ pc \in {"done", "failed"}
  /\ turns' = Append(turns,
       [status |-> outcome.status,
        notes |-> [id \in RoomieIds |->
                     IF pc = "done" THEN TurnNotes(id, Len(acc.beatLog)) ELSE <<>>]])
  /\ pc' = "idle"
  /\ ops' = <<>>
  /\ warnings' = <<>>
  /\ elapsed' = 0
  /\ input' = NoInput
  /\ state' = createInitialRoomState
  /\ shared' = createInitialRoomState.shared
  /\ activeRoomies' = <<>>
  /\ directorTrail' = <<>>
  /\ directorReason' = ""
  /\ directorAttempts' = 0
  /\ directorPlan' = NoPlan
  /\ acc' = NoAcc
  /\ index' = 0
  /\ summarizedShared' = createInitialRoomState.shared
  /\ outcome' = NoOutcome
  /\ UNCHANGED <<store, assignments, call>>

NextTurn ==
  /\ Len(turns) < MaxTurns
  /\ TurnOver

NextSeries ==
  \/ \E in \in { TurnInput(<<"g", "o">>, 1, 0, Budget(1, 0, 2, 5, 0), Host(FALSE, 1, 1, <<>>,
          FALSE)), TurnInput(<<" ", "NL">>, 1, 0, Budget(1, 0, 2, 5, 0), Host(FALSE, 1, 1, <<>>,
          FALSE)) } : Invoke(in)
  \/ LoadState
  \/ \E raw \in { [kind |-> "object", hasBeats |-> TRUE, beats |-> <<DirectorEntry(1,
          StyleBusy)>>], [kind |-> "blank", hasBeats |-> FALSE,
          beats |-> <<>>] } : DirectorCall(raw)
  \/ \E raw \in { <<SeriesSpeakLine, SeriesThoughtLine("c"), SeriesThoughtLine("d"),
          SeriesThoughtLine("e")>>, <<SeriesThoughtLine("f"), SeriesSpeakLine>> } : SpeakerCall(raw)
  \/ SaveState
  \/ GenerateTextThrows
  \/ NextTurn

SpecSeries == Init /\ [][NextSeries]_vars

(***************************************************************************)
(* A series of turns whose shared history grows until compaction runs:     *)
(* one roomie with a line and a thought per turn, a summarizer set up, the *)
(* threshold either reached after a few turns (with the default number of  *)
(* kept messages) or at once (keeping two messages, or none).              *)
(***************************************************************************)

NextCompaction ==
  \/ \E in \in { TurnInput(<<"g", "o">>, 1, 0, Budget(1, 0, 0, 5, 0), Host(TRUE, 20, -1, <<>>,
          FALSE)), TurnInput(<<"g", "o">>, 1, 0, Budget(1, 0, 0, 5, 0), Host(TRUE, 1, 2, <<"g">>,
          FALSE)), TurnInput(<<"g", "o">>, 1, 0, Budget(1, 0, 0, 5, 0), Host(TRUE, 1, 0, <<>>,
          FALSE)) } : Invoke(in)
  \/ LoadState
  \/ \E raw \in { [kind |-> "object", hasBeats |-> TRUE, beats |-> <<DirectorEntry(1,
          StyleBusy)>>] } : DirectorCall(raw)
  \/ \E raw \in { <<SeriesSpeakLine, SeriesThoughtLine("c")>> } : SpeakerCall(raw)
  \/ \E raw \in Summaries : Summarizer(raw)
  \/ SaveState
  \/ NextTurn

SpecCompaction == Init /\ [][NextCompaction]_vars

(***************************************************************************)
(* A series of more turns than DIRECTOR_HISTORY_LIMIT of a room of one     *)
(* roomie, each with a plan of the director or, after a blank director     *)
(* output, the fallback plan, and one spoken line.                         *)
(***************************************************************************)

NextTurnOfMany ==
  /\ Len(turns) < MaxPlanTurns
  /\ TurnOver

NextPlanHistory ==
  \/ \E in \in { TurnInput(<<"g", "o">>, 1, 0, Budget(1, 0, 0, 5, 0), Host(FALSE, 1, 1, <<>>,
          FALSE)) } : Invoke(in)
  \/ LoadState
  \/ \E raw \in { [kind |-> "object", hasBeats |-> TRUE, beats |-> <<DirectorEntry(1,
          StyleBusy)>>], [kind |-> "blank", hasBeats |-> FALSE,
          beats |-> <<>>] } : DirectorCall(raw)
  \/ \E raw \in { <<SeriesSpeakLine>> } : SpeakerCall(raw)
  \/ SaveState
  \/ NextTurnOfMany

SpecPlanHistory == Init /\ [][NextPlanHistory]_vars

(***************************************************************************)
(* A series of turns of a room of two roomies: the director plans a beat   *)
(* for the second roomie and then one for the first, both free to act and  *)
(* to think, so that from the second turn on the beats are prompted with a *)
(* loaded history and the lines of the turn so far.                        *)
(***************************************************************************)

BeatsActionLine == EventLine(<<"{", "a", "}">>, "action", <<"y", "o">>)

NextBeats ==
  \/ \E in \in { TurnInput(<<"g", "o">>, 2, 0, Budget(1, 1, 1, 5, 0), Host(FALSE, 1, 1, <<>>,
          FALSE)) } : Invoke(in)
  \/ LoadState
  \/ \E raw \in { [kind |-> "object", hasBeats |-> TRUE, beats |-> <<DirectorEntry(2, StyleOpen),
          DirectorEntry(1, StyleOpen)>>] } : DirectorCall(raw)
  \/ \E raw \in { <<SeriesSpeakLine, SeriesThoughtLine("c")>>, <<BeatsActionLine,
          SeriesSpeakLine>> } : SpeakerCall(raw)
  \/ SaveState
  \/ NextTurn

SpecBeats == Init /\ [][NextBeats]_vars

(***************************************************************************)
(* Turns of one roomie whose beat has every maxEvents from 1 to 4 and      *)
(* permits both extra types, thoughts only, or neither, over speaker       *)
(* outputs that hold a speak event at every position among thoughts,       *)
(* actions and lines that are not JSON.                                    *)
(***************************************************************************)

AcceptSpeakerRaws == SeqsUpTo({ SeriesSpeakLine, SeriesThoughtLine("c"), BeatsActionLine,
        RawLine(<<"x">>, "not-json") }, MaxOutputLines)

NextAccept ==
  \/ \E in \in { TurnInput(<<"g", "o">>, 1, 0, Budget(1, 2, 2, 5, 0), Host(FALSE, 1, 1, <<>>,
          FALSE)) } : Invoke(in)
  \/ LoadState
  \/ \E raw \in { [kind |-> "object", hasBeats |-> TRUE, beats |-> <<DirectorEntry(1,
          st)>>] : st \in { [allow_action |-> p[1], allow_thought |-> p[2], max_events |-> m,
          intent |-> ""] : p \in {<<"true", "true">>, <<"absent", "true">>, <<"absent",
          "absent">>}, m \in {RawInt(1), NoInt, RawInt(3), RawInt(9)} } } : DirectorCall(raw)
  \/ \E raw \in AcceptSpeakerRaws : SpeakerCall(raw)
  \/ \E raw \in AcceptSpeakerRaws : SpeakerRepair(raw)
  \/ SaveState

SpecAccept == Init /\ [][NextAccept]_vars

(***************************************************************************)
(* Turns of two roomies under every mix of action and thought caps: both   *)
(* beats permit actions and thoughts and keep up to 4 events, and a        *)
(* speaker output is a run of thoughts and actions, repeated ones among    *)
(* them, closed by a speak event.                                          *)
(***************************************************************************)

CapsStyle ==
  [allow_action |-> "true", allow_thought |-> "true", max_events |-> RawInt(4), intent |-> ""]

NextCaps ==
  \/ \E in \in { TurnInput(<<"g", "o">>, 2, 0, Budget(1, a, t, 5, 0), Host(FALSE, 1, 1, <<>>,
          FALSE)) : a \in {0, 1, 3}, t \in {0, 1, 2, 3} } : Invoke(in)
  \/ LoadState
  \/ \E raw \in { [kind |-> "object", hasBeats |-> TRUE, beats |-> <<DirectorEntry(1, CapsStyle),
          DirectorEntry(2, CapsStyle)>>] } : DirectorCall(raw)
  \/ \E raw \in { extra \o <<SeriesSpeakLine>> : extra \in SeqsUpTo({SeriesThoughtLine("c"),
          SeriesThoughtLine("d"), BeatsActionLine}, MaxExtraLines) } : SpeakerCall(raw)
  \/ SaveState

SpecCaps == Init /\ [][NextCaps]_vars

(***************************************************************************)
(* Turns of two roomies when every store and generation call that is       *)
(* awaited comes back: while the turn waits for a call, the call returns a *)
(* value or throws.  The budget asks for 3 director attempts, with and     *)
(* without a latency target; the clock may stand still.  The history is    *)
(* compacted in every turn.                                                *)
(***************************************************************************)

ReturnsDirectorRaws ==
  { [kind |-> "object", hasBeats |-> TRUE,
     beats |-> <<DirectorEntry(1, StyleOpen), DirectorEntry(2, StyleOpen)>>],
    [kind |-> "blank", hasBeats |-> FALSE, beats |-> <<>>] }

ReturnsSpeakerRaws ==
  { <<SeriesSpeakLine>>, <<SeriesThoughtLine("c"), SeriesSpeakLine>>, <<RawLine(<<"x">>, "not-json")>> }

Returns ==
  \/ LoadState
  \/ ResolveRoomieModels
  \/ \E raw \in ReturnsDirectorRaws : DirectorCall(raw)
  \/ \E raw \in ReturnsDirectorRaws : DirectorRepair(raw)
  \/ \E raw \in ReturnsSpeakerRaws : SpeakerCall(raw)
  \/ \E raw \in ReturnsSpeakerRaws : SpeakerRepair(raw)
  \/ \E raw \in Summaries : Summarizer(raw)
  \/ SaveState
  \/ GenerateTextThrows

NextReturns ==
  \/ \E in \in { TurnInput(<<"g", "o">>, 2, 0, Budget(3, 1, 1, 5, target), Host(TRUE, 1, 1,
          <<"g">>, TRUE)) : target \in {0, 2} } : Invoke(in)
  \/ Returns
  \/ Tick

\* Weak fairness of the steps in which an awaited call comes back.  For the
\* speaker calls it is written out, <>[]ENABLED <<A>>_vars => []<><<A>>_vars,
\* with the guard of the step for ENABLED: a speaker call can come back
\* whenever the turn waits for it.
CallsReturn ==
  /\ WF_vars(LoadState)
  /\ WF_vars(ResolveRoomieModels)
  /\ WF_vars(\E raw \in ReturnsDirectorRaws : DirectorCall(raw))
  /\ WF_vars(\E raw \in ReturnsDirectorRaws : DirectorRepair(raw))
  /\ <>[](pc = "speaker") => []<><<\E raw \in ReturnsSpeakerRaws : SpeakerCall(raw)>>_vars
  /\ <>[](pc = "speakerRepair") => []<><<\E raw \in ReturnsSpeakerRaws : SpeakerRepair(raw)>>_vars
  /\ WF_vars(\E raw \in Summaries : Summarizer(raw))
  /\ WF_vars(SaveState)

SpecReturns == Init /\ [][NextReturns]_vars /\ CallsReturn

(***************************************************************************)
(* The exported event functions called on their own: applyBudgetCaps and   *)
(* dedupeSimilarEvents over event lists with repeated speak events, keys   *)
(* that differ by case only, a thought that truncation empties and two     *)
(* actions whose authors and contents hold the separator of the key.       *)
(***************************************************************************)
Event(type, author, content) ==
  [type |-> type, author |-> author, content |-> content, eventId |-> NoId, beatId |-> NoId,
   schemaVersion |-> THEATRICAL_EVENT_SCHEMA_VERSION,
   visibility |-> IF type = "thought" THEN "private" ELSE "public",
   intensity |-> IF type = "speak" THEN 2 ELSE 3, origin |-> "roomie"]

EventPool ==
  { Event("speak", <<"A">>, <<"h", "i">>),
    Event("action", <<"A">>, <<"a", "b">>),
    Event("action", <<"a">>, <<"A", "B">>),
    Event("thought", <<"A">>, <<"a", "b", "c">>),
    Event("thought", <<"A">>, <<"a", "b", "d">>),
    Event("thought", <<"A">>, <<" ", "x">>),
    Event("action", <<"x">>, <<"y", "|", "a", "c", "t", "i", "o", "n", "|", "z">>),
    Event("action", <<"x", "|", "a", "c", "t", "i", "o", "n", "|", "y">>, <<"z">>) }

EventLists == SeqsUpTo(EventPool, MaxEventList)

InitEvents ==
  /\ InitTurn
  /\ \/ \E events \in EventLists, budget \in { Budget(1, 0, 2, 0, 0), Budget(1, 1, 1, 2, 0),
          Budget(1, 2, 2, 5, 0), Budget(1, 1, 2, 1, 0), Budget(1, -1, -1, -1, 0) } :
          call = [NoCall EXCEPT !.fn = "applyBudgetCaps", !.events = events, !.budget = budget]
     \/ \E events \in EventLists :
          call = [NoCall EXCEPT !.fn = "dedupeSimilarEvents", !.events = events]

\* applyBudgetCaps(events, budget) returns.
ApplyBudgetCaps ==
  /\ call.fn = "applyBudgetCaps"
  /\ call.results = <<>>
  /\ call' = [call EXCEPT !.results = <<applyBudgetCaps(call.events, call.budget)>>]
  /\ UNCHANGED <<store, assignments, ops, warnings, pc, elapsed, input, state, shared,
                 activeRoomies, directorTrail, directorReason, directorAttempts, directorPlan,
                 acc, index, summarizedShared, outcome, turns>>

\* dedupeSimilarEvents returns, called on the events and then on its own result.
DedupeSimilarEvents ==
  /\ call.fn = "dedupeSimilarEvents"
  /\ Len(call.results) < 2
  /\ call' = [call EXCEPT !.results =
                Append(@, dedupeSimilarEvents(IF @ = <<>> THEN call.events ELSE @[Len(@)]))]
  /\ UNCHANGED <<store, assignments, ops, warnings, pc, elapsed, input, state, shared,
                 activeRoomies, directorTrail, directorReason, directorAttempts, directorPlan,
                 acc, index, summarizedShared, outcome, turns>>

NextEvents ==
  \/ ApplyBudgetCaps
  \/ DedupeSimilarEvents

SpecEvents == InitEvents /\ [][NextEvents]_vars

(***************************************************************************)
(* parseNdjsonTheatricalEvents called on its own, over outputs whose lines *)
(* are well-formed events with and without optional fields, lines of each  *)
(* bad kind, and blank lines, with and without a default author and an     *)
(* origin hint.                                                            *)
(***************************************************************************)
ParseLinePool ==
  { EventLine(<<"1">>, "speak", <<"h", "i">>),
    [EventLine(<<"2">>, "speak", <<"h", " ", " ", "i">>)
       EXCEPT !.author = <<" ", "Z">>, !.intensity = RawInt(0), !.origin = "bogus"],
    EventLine(<<"3">>, "thought", <<"a", "b", "c">>),
    [EventLine(<<"4">>, "thought", <<"a", "b", "c">>)
       EXCEPT !.visibility = "public", !.intensity = RawInt(4)],
    [EventLine(<<"5">>, "action", <<"a", "b">>)
       EXCEPT !.visibility = "secret", !.intensity = RawInt(9), !.origin = "director"],
    [EventLine(<<"6">>, "speak", <<"h", "i">>) EXCEPT !.author = <<" ">>],
    EventLine(<<"7">>, "shout", <<"h", "i">>),
    EventLine(<<"8">>, "speak", <<" ", "TAB">>),
    RawLine(<<"9">>, "not-json"),
    RawLine(<<"4", "2">>, "not-object"),
    RawLine(<<"[", "]">>, "object"),
    RawLine(<<>>, "blank") }

InitParse ==
  /\ InitTurn
  /\ \E raw \in (SeqsUpTo(ParseLinePool, MaxLines)), author \in {<<>>, <<"A">>}, origin \in {"", "repair"} :
       call = [NoCall EXCEPT !.fn = "parseNdjsonTheatricalEvents", !.raw = raw,
                             !.defaultAuthor = author, !.origin = origin]

\* parseNdjsonTheatricalEvents(params) returns; an absent origin hint counts
\* as "roomie" (params.origin ?? "roomie"), ids come from a fresh factory.
ParseNdjson ==
  /\ call.fn = "parseNdjsonTheatricalEvents"
  /\ call.results = <<>>
  /\ call' = [call EXCEPT !.results =
                <<parseNdjsonTheatricalEvents(call.raw, call.defaultAuthor, BeatId(0, 1),
                                              IF call.origin = "" THEN "roomie" ELSE call.origin,
                                              1, 0)>>]
  /\ UNCHANGED <<store, assignments, ops, warnings, pc, elapsed, input, state, shared,
                 activeRoomies, directorTrail, directorReason, directorAttempts, directorPlan,
                 acc, index, summarizedShared, outcome, turns>>

NextParse == ParseNdjson

SpecParse == InitParse /\ [][NextParse]_vars

(***************************************************************************)
(* The plan builders called on their own: parseDirectorPlanSchema over     *)
(* director outputs whose beats arrays hold junk, unknown and repeated     *)
(* entries before and between valid ones, and buildFallbackPlan, for       *)
(* rosters of one and two active roomies and several turn indexes.         *)
(***************************************************************************)

InitPlans ==
  /\ InitTurn
  /\ \E n \in 1..2, turnIndex \in 0..MaxTurnIndex :
       \/ \E raw \in {[kind |-> k, hasBeats |-> FALSE, beats |-> <<>>] : k \in {"text",
               "object"}} \cup {[kind |-> "object", hasBeats |-> TRUE,
               beats |-> b] : b \in SeqsUpTo(DirectorEntries, MaxPlanEntries)} :
            call = [NoCall EXCEPT !.fn = "parseDirectorPlanSchema", !.raw = raw,
                                  !.roomies = Roster(n), !.turnIndex = turnIndex]
       \/ call = [NoCall EXCEPT !.fn = "buildFallbackPlan", !.roomies = Roster(n),
                                 !.turnIndex = turnIndex]

\* parseDirectorPlanSchema(params) returns.
ParseDirectorPlan ==
  /\ call.fn = "parseDirectorPlanSchema"
  /\ call.results = <<>>
  /\ call' = [call EXCEPT !.results =
                <<parseDirectorPlanSchema(call.raw, call.roomies, call.turnIndex, 2)>>]
  /\ UNCHANGED <<store, assignments, ops, warnings, pc, elapsed, input, state, shared,
                 activeRoomies, directorTrail, directorReason, directorAttempts, directorPlan,
                 acc, index, summarizedShared, outcome, turns>>

\* buildFallbackPlan(params) returns.
BuildFallbackPlan ==
  /\ call.fn = "buildFallbackPlan"
  /\ call.results = <<>>
  /\ call' = [call EXCEPT !.results =
                <<[ok |-> TRUE, reason |-> "",
                   plan |-> buildFallbackPlan(call.roomies, call.turnIndex, "director-invalid-json", 1)]>>]
  /\ UNCHANGED <<store, assignments, ops, warnings, pc, elapsed, input, state, shared,
                 activeRoomies, directorTrail, directorReason, directorAttempts, directorPlan,
                 acc, index, summarizedShared, outcome, turns>>

NextPlans ==
  \/ ParseDirectorPlan
  \/ BuildFallbackPlan

SpecPlans == InitPlans /\ [][NextPlans]_vars


(***************************************************************************)
(* Properties                                                              *)
(***************************************************************************)
Count(name) == Cardinality({i \in DOMAIN ops : ops[i].op = name})

CountFor(name, beat) == Cardinality({i \in DOMAIN ops : ops[i].op = name /\ ops[i].beat = beat})

SomeCallThrew == \E i \in DOMAIN ops : ops[i].threw

PhaseRank(name) ==
  CASE name = "loadState" -> 1
    [] name \in {"getModelAssignment", "saveModelAssignment"} -> 2
    [] name = "director" -> 3
    [] name = "directorRepair" -> 4
    [] name \in {"speaker", "speakerRepair"} -> 5
    [] name = "summarizer" -> 6
    [] OTHER -> 7

SpeakCount(events) == Cardinality({i \in DOMAIN events : events[i].type = "speak"})

\* C1: the external operations of a turn are issued in one forward order:
\* loadState once and first, the director call and then its repair, the
\* speaker calls beat by beat in plan order (a beat's primary call before its
\* repair), at most one summarizer call, saveState once and last; a completed
\* turn has issued exactly one primary speaker call for every beat of the plan.
C1_ForwardOrder ==
  /\ \A i, j \in DOMAIN ops :
       i < j =>
         /\ PhaseRank(ops[i].op) <= PhaseRank(ops[j].op)
         /\ PhaseRank(ops[i].op) = 5 /\ PhaseRank(ops[j].op) = 5 => ops[i].beat <= ops[j].beat
         /\ ops[i].op = "speakerRepair" /\ ops[j].op = "speaker" => ops[i].beat < ops[j].beat
  /\ \A name \in {"loadState", "director", "directorRepair", "summarizer", "saveState"} :
       Count(name) <= 1
  /\ pc = "done" =>
       /\ ops[1].op = "loadState"
       /\ ops[Len(ops)].op = "saveState"
       /\ Count("director") = 1
       /\ \A k \in DOMAIN directorPlan.beats :
            CountFor("speaker", k) = 1 /\ CountFor("speakerRepair", k) <= 1

C1_Witness ==
  /\ pc = "done"
  /\ Count("directorRepair") = 1
  /\ Count("speakerRepair") = 1
  /\ Count("summarizer") = 1

\* C2: when a generation call throws, nothing is issued after it and it is
\* not issued again, the caller gets that error, saveState is never called
\* and the store still holds the RoomState that was loaded.
C2_ThrowAborts ==
  \A i \in DOMAIN ops :
    ops[i].threw =>
      /\ i = Len(ops)
      /\ pc = "failed"
      /\ outcome.status = "error" /\ outcome.error = "generateText failed"
      /\ Count("saveState") = 0
      /\ store = state
      /\ CountFor(ops[i].op, ops[i].beat) = 1

C2_Witness ==
  /\ pc = "failed"
  /\ ops # <<>>
  /\ ops[Len(ops)].threw
  /\ ops[Len(ops)].op = "speaker" /\ ops[Len(ops)].beat = 2
  /\ acc.allEvents # <<>>

\* C3: no director output aborts the turn: once the director has answered,
\* the turn fails only if a generation call throws, it runs with a plan of at
\* least one beat, and when it is done it has called the speaker for every
\* beat, saved a state with the turn index advanced and returned a result.
C3_DirectorNeverAborts ==
  /\ directorTrail # <<>> /\ ~SomeCallThrew => pc # "failed"
  /\ pc \in {"speaker", "speakerRepair", "summarizer", "saveState", "done"} =>
       Len(directorPlan.beats) >= 1
  /\ pc = "done" =>
       /\ outcome.status = "ok" /\ outcome.directorPlan = directorPlan
       /\ \A k \in DOMAIN directorPlan.beats : CountFor("speaker", k) = 1
       /\ store.shared.turn_index = state.shared.turn_index + 1

C3_Witness ==
  /\ pc = "done"
  /\ directorTrail = <<FALSE, FALSE>>
  /\ directorPlan.trace.source = "fallback"
  /\ Len(directorPlan.beats) = 2

\* C4: every beat that has been executed has a speak event of its own in the
\* turn's event list, so the returned list has at least as many speak events
\* as the plan has beats.
C4_BeatSpeaks ==
  /\ \A k \in DOMAIN directorPlan.beats :
       k < index =>
         \E i \in DOMAIN acc.allEvents :
           acc.allEvents[i].type = "speak" /\ acc.allEvents[i].beatId = directorPlan.beats[k].beatId
  /\ pc = "done" =>
       /\ outcome.events = acc.allEvents
       /\ SpeakCount(outcome.events) >= Len(directorPlan.beats)

C4_Witness ==
  /\ pc = "done"
  /\ input.budget.maxActionEventsPerTurn = 0
  /\ Count("speakerRepair") = 1
  /\ \E i \in DOMAIN outcome.events : outcome.events[i].content = Str_I

\* C5: in every plan a turn uses, each beat's agentId is an active roomie, no
\* agentId has two beats and there are at most as many beats as active roomies.
C5_PlanShape ==
  /\ \A k \in DOMAIN directorPlan.beats :
       /\ directorPlan.beats[k].agentId \in ActiveIds(activeRoomies)
       /\ \A j \in DOMAIN directorPlan.beats :
            j # k => directorPlan.beats[j].agentId # directorPlan.beats[k].agentId
  /\ Len(directorPlan.beats) <= Len(activeRoomies)

C5_Witness ==
  /\ pc = "done"
  /\ directorPlan.trace.source = "repair"
  /\ Len(directorPlan.beats) = 2


OfType(events, type) == SelectSeq(events, LAMBDA event : event.type = type)

Capped(events) == SelectSeq(events, LAMBDA event : event.type # "speak")

KeysOf(events) == [i \in DOMAIN events |-> DedupeKey(events[i])]

IsPrefix(s, t) == Len(s) <= Len(t) /\ SubSeq(t, 1, Len(s)) = s

\* The elements of seq in the order of their first occurrence.
RECURSIVE FirstOccurrences(_)
FirstOccurrences(seq) ==
  IF seq = <<>> THEN <<>>
  ELSE LET front == FirstOccurrences(SubSeq(seq, 1, Len(seq) - 1))
       IN  IF seq[Len(seq)] \in Range(front) THEN front ELSE Append(front, seq[Len(seq)])

\* The keys under which the kept events of one type were admitted.
AdmittedKeys(type) ==
  LET kept == Capped(acc.allEvents)
      at == {i \in DOMAIN kept : kept[i].type = type}
      RECURSIVE Pick(_)
      Pick(n) == IF n = 0 THEN <<>>
                 ELSE IF n \in at THEN Append(Pick(n - 1), acc.admitted[n]) ELSE Pick(n - 1)
  IN  Pick(Len(kept))

CapOf(type) ==
  IF type = "action" THEN Max(0, input.budget.maxActionEventsPerTurn)
  ELSE Max(0, input.budget.maxThoughtEventsPerTurn)

TurnCapsHold ==
  /\ Len(OfType(acc.allEvents, "action")) <= CapOf("action")
  /\ Len(OfType(acc.allEvents, "thought")) <= CapOf("thought")

\* C6 as stated: the turn's events respect the action and thought caps and
\* no two action/thought events of the list have the same case-insensitive
\* (author, type, content).
C6_NoSimilarPair ==
  /\ TurnCapsHold
  /\ \A i, j \in DOMAIN acc.allEvents :
       /\ i < j
       /\ acc.allEvents[i].type # "speak"
       /\ acc.allEvents[j].type # "speak"
       => DedupeKey(acc.allEvents[i]) # DedupeKey(acc.allEvents[j])

\* C6: across the whole turn the event list has at most
\* maxActionEventsPerTurn actions and maxThoughtEventsPerTurn thoughts; the
\* kept action/thought events were admitted under pairwise different
\* case-insensitive (author, type, content) keys, the key of a thought being
\* taken before its content is truncated; and per type the kept events are
\* the first differently-keyed events offered, in emission order, up to the cap.
C6_CapsAndFirstSeen ==
  input # NoInput =>
    /\ TurnCapsHold
    /\ \A i, j \in DOMAIN acc.admitted : i # j => acc.admitted[i] # acc.admitted[j]
    /\ Len(acc.admitted) = Len(Capped(acc.allEvents))
    /\ \A i \in DOMAIN acc.admitted :
         LET event == Capped(acc.allEvents)[i]
         IN  IF event.type = "action" THEN DedupeKey(event) = acc.admitted[i]
             ELSE IsPrefix(DedupeKey(event), acc.admitted[i])
    /\ \A type \in {"action", "thought"} :
         LET first == FirstOccurrences(KeysOf(OfType(acc.offered, type)))
         IN  AdmittedKeys(type) = SubSeq(first, 1, Min(CapOf(type), Len(first)))
    /\ pc = "done" => outcome.events = acc.allEvents

C6_Witness ==
  /\ pc = "done"
  /\ Len(directorPlan.beats) = 2
  /\ \E i, j \in DOMAIN outcome.events :
       /\ i < j
       /\ outcome.events[i].type = "thought" /\ outcome.events[j].type = "thought"
       /\ outcome.events[i].beatId # outcome.events[j].beatId
       /\ DedupeKey(outcome.events[i]) = DedupeKey(outcome.events[j])
  /\ \E i, j \in DOMAIN acc.offered :
       i < j /\ DedupeKey(acc.offered[i]) = DedupeKey(acc.offered[j])

NoneSkipped ==
  /\ "room-v3.director-retry-skipped" \notin Range(warnings)
  /\ "room-v3.speaker-retry-skipped" \notin Range(warnings)

C7_WitnessChars ==
  /\ pc = "done"
  /\ input.budget.maxThoughtCharsPerEvent = 0
  /\ \E i \in DOMAIN outcome.events :
       outcome.events[i].type = "thought" /\ outcome.events[i].content = <<"a">>

\* C8: the plan's trace.source is "model" exactly when the first director
\* output validated, "repair" exactly when the first failed and the repair
\* output validated, and "fallback" in every other case.
C8_TraceSource ==
  directorPlan # NoPlan =>
    /\ directorPlan.trace.source \in {"model", "repair", "fallback"}
    /\ directorPlan.trace.source = "model" <=> directorTrail[1]
    /\ directorPlan.trace.source = "repair" <=>
         Len(directorTrail) = 2 /\ ~directorTrail[1] /\ directorTrail[2]
    /\ directorPlan.trace.source = "fallback" <=>
         \/ Len(directorTrail) = 1 /\ ~directorTrail[1] /\ Count("directorRepair") = 0
         \/ Len(directorTrail) = 2 /\ ~directorTrail[1] /\ ~directorTrail[2]
    /\ Len(directorTrail) = 1 + Count("directorRepair")

C8_Witness ==
  /\ pc = "done"
  /\ outcome.directorPlan.trace.source = "repair"
  /\ directorTrail = <<FALSE, TRUE>>

\* C9: a director repair call is issued only when the first output failed
\* validation, maxDirectorAttempts is more than 1 and, with a latency target,
\* less than 80% of it had elapsed when the first output was validated; at
\* most one repair call is issued per turn; with maxDirectorAttempts = 1 and a
\* failed first output there is exactly one director call and the plan is the
\* fallback plan.
C9_RepairGuard ==
  /\ Count("directorRepair") <= 1
  /\ pc = "directorRepair" \/ Count("directorRepair") = 1 =>
       /\ ~directorTrail[1]
       /\ input.budget.maxDirectorAttempts > 1
       /\ \E i \in DOMAIN ops :
            /\ ops[i].op = "director"
            /\ \/ input.budget.targetP95TurnLatencyMs = 0
               \/ 10 * (ops[i].at + 1) <= 8 * input.budget.targetP95TurnLatencyMs
  /\ /\ input # NoInput
     /\ input.budget.maxDirectorAttempts = 1
     /\ directorTrail # <<>>
     /\ ~directorTrail[1]
     => /\ pc # "directorRepair"
        /\ Count("director") = 1 /\ Count("directorRepair") = 0
        /\ directorPlan.trace.source = "fallback"

C9_Witness ==
  /\ pc = "done"
  /\ input.budget.maxDirectorAttempts = 3
  /\ Count("directorRepair") = 1
  /\ directorTrail = <<FALSE, FALSE>>

\* C9, the other cases: a single permitted attempt, and a latency target used up.
C9_WitnessSingle ==
  /\ pc = "done"
  /\ input.budget.maxDirectorAttempts = 1
  /\ directorTrail = <<FALSE>>

\* C10: the fallback plan has one beat per active roomie in roster order,
\* each with allowAction and allowThought false and the generic intent; its
\* trace has source "fallback" and the reason of the last failed validation.
C10_FallbackPlan ==
  directorPlan.trace.source = "fallback" =>
    /\ Len(directorPlan.beats) = Len(activeRoomies)
    /\ activeRoomies = SubSeq(input.roomies, 1, Len(activeRoomies))
    /\ \A k \in DOMAIN directorPlan.beats :
         /\ directorPlan.beats[k].agentId = activeRoomies[k].id
         /\ ~directorPlan.beats[k].allowAction
         /\ ~directorPlan.beats[k].allowThought
         /\ directorPlan.beats[k].intent = "respond-helpfully"
    /\ directorPlan.trace.reason = directorReason
    /\ directorReason \in {"director-invalid-json", "director-missing-beats", "director-no-valid-beats"}

C10_Witness ==
  /\ pc = "done"
  /\ outcome.directorPlan.trace.source = "fallback"
  /\ Len(directorTrail) = 2
  /\ Len(activeRoomies) = 2
  /\ directorReason = "director-no-valid-beats"

\* The latency guard read at elapsed time now: no target, or less than 80%
\* of the target gone.
DeadlineOpen(now) ==
  \/ input.budget.targetP95TurnLatencyMs = 0
  \/ 10 * (now + 1) <= 8 * input.budget.targetP95TurnLatencyMs

\* The elapsed time at which the primary speaker call of beat k returned.
SpeakerAt(k) == ops[CHOOSE i \in DOMAIN ops : ops[i].op = "speaker" /\ ops[i].beat = k].at

\* C11: a beat's fallback speak event is synthesized only after a speaker
\* repair call was attempted, unless the latency guard refused the repair:
\* both a failed parse and a parse without an accepted speak event lead to
\* the repair call first.
C11_RepairBeforeFallback ==
  \A k \in DOMAIN acc.beatLog :
    /\ acc.beatLog[k].fallback
    /\ DeadlineOpen(SpeakerAt(k))
    => CountFor("speakerRepair", k) = 1

EventsOfBeat(events, beatId) == SelectSeq(events, LAMBDA event : event.beatId = beatId)

\* C12: a beat whose accepted events hold no speak event ends with exactly
\* one synthesized speak event, of non-empty content of at most 360
\* characters; nothing else of the beat is offered to the turn, returned or
\* noted in the roomie's memory.  A beat without the fallback has a speak event.
C12_FallbackOnly ==
  \A k \in DOMAIN acc.beatLog :
    LET log == acc.beatLog[k]
        mine == EventsOfBeat(acc.allEvents, log.beatId)
    IN  IF log.fallback
          THEN /\ Len(log.accepted) = 1
               /\ log.accepted[1].type = "speak"
               /\ log.accepted[1].content # <<>>
               /\ Len(log.accepted[1].content) <= 360
               /\ mine = log.accepted
               /\ EventsOfBeat(acc.offered, log.beatId) = log.accepted
               /\ acc.privateMemory[directorPlan.beats[k].agentId] = <<>>
          ELSE HasSpeak(mine) /\ HasSpeak(log.accepted)

C12_Witness ==
  /\ pc = "done"
  /\ \E k \in DOMAIN acc.beatLog :
       /\ acc.beatLog[k].fallback
       /\ acc.beatLog[k].parsed
       /\ CountFor("speakerRepair", k) = 0
       /\ Len(acc.beatLog[k].accepted[1].content) = 359
       /\ \E i \in DOMAIN outcome.events : outcome.events[i] = acc.beatLog[k].accepted[1]

\* C13: the events of a turn have pairwise distinct eventIds, also when the
\* speaker output supplies eventId fields of its own.
C13_DistinctEventIds ==
  \A i, j \in DOMAIN acc.allEvents :
    i # j => acc.allEvents[i].eventId # acc.allEvents[j].eventId

\* 80% of a positive latency target has elapsed at time now.
DeadlineReached(now) ==
  /\ input.budget.targetP95TurnLatencyMs > 0
  /\ 10 * now >= 8 * input.budget.targetP95TurnLatencyMs

\* The elapsed time at which the first director call returned.
DirectorAt == ops[CHOOSE i \in DOMAIN ops : ops[i].op = "director"].at

SkippedWarnings(name) == Len(SelectSeq(warnings, LAMBDA w : w = name))

\* C14: no director repair and no speaker repair is pending or issued when
\* 80% of a positive latency target had elapsed at the time the primary output
\* was validated; a failed output then leads to the fallback plan or the
\* fallback speak event and to a warning; the primary director call and the
\* primary speaker call of every beat are issued whatever time has elapsed.
C14_DeadlineSkipsRepairs ==
  /\ pc = "directorRepair" \/ Count("directorRepair") = 1 => ~DeadlineReached(DirectorAt)
  /\ \A k \in DOMAIN directorPlan.beats :
       (pc = "speakerRepair" /\ index = k) \/ CountFor("speakerRepair", k) = 1
       => ~DeadlineReached(SpeakerAt(k))
  /\ /\ directorTrail # <<>>
     /\ ~directorTrail[1]
     /\ input.budget.maxDirectorAttempts > 1
     /\ DeadlineReached(DirectorAt)
     => /\ directorPlan.trace.source = "fallback"
        /\ SkippedWarnings("room-v3.director-retry-skipped") = 1
  /\ \A k \in DOMAIN acc.beatLog :
       ~acc.beatLog[k].parsed /\ DeadlineReached(SpeakerAt(k))
       => /\ CountFor("speakerRepair", k) = 0
          /\ acc.beatLog[k].fallback
  /\ SkippedWarnings("room-v3.speaker-retry-skipped")
       = Cardinality({k \in DOMAIN acc.beatLog :
                        ~acc.beatLog[k].parsed /\ CountFor("speakerRepair", k) = 0})
  /\ pc = "done" =>
       /\ Count("director") = 1
       /\ \A k \in DOMAIN directorPlan.beats : CountFor("speaker", k) = 1

C14_Witness ==
  /\ pc = "done"
  /\ input.budget.maxDirectorAttempts > 1
  /\ ~directorTrail[1]
  /\ DeadlineReached(DirectorAt)
  /\ Count("directorRepair") = 0
  /\ ~acc.beatLog[1].parsed
  /\ acc.beatLog[1].fallback
  /\ CountFor("speakerRepair", 1) = 0
  /\ Len(warnings) = 2

GenerationCalls == {"director", "directorRepair", "speaker", "speakerRepair", "summarizer"}

\* C15: a turn whose user message is blank after normalization fails with
\* "User message is required" before any operation; a turn with an empty
\* roster fails with "At least one roomie is required for v3" after loadState
\* only; in both cases no generation call is issued, no model assignment is
\* saved, saveState is not called and the stored state is untouched.
C15_InputErrors ==
  input # NoInput =>
    /\ compact(input.userMessage) = <<>> =>
         /\ pc = "failed"
         /\ outcome.status = "error" /\ outcome.error = "User message is required"
         /\ ops = <<>>
    /\ compact(input.userMessage) # <<>> /\ input.roomies = <<>> =>
         /\ pc \in {"loadState", "failed"}
         /\ pc = "failed" =>
              /\ outcome.status = "error"
              /\ outcome.error = "At least one roomie is required for v3"
              /\ Len(ops) = 1 /\ ops[1].op = "loadState"
    /\ compact(input.userMessage) = <<>> \/ input.roomies = <<>> =>
         /\ \A i \in DOMAIN ops : ops[i].op \notin GenerationCalls \cup {"saveState", "saveModelAssignment"}
         /\ assignments = 0
         /\ store = createInitialRoomState
    /\ outcome.error \in {"User message is required", "At least one roomie is required for v3"} =>
         compact(input.userMessage) = <<>> \/ input.roomies = <<>>

C15_Witness ==
  /\ pc = "failed"
  /\ input.roomies = <<>>
  /\ input.host.hasAssignmentStore
  /\ outcome.error = "At least one roomie is required for v3"

\* C15, the other input error: the blank user message.
C15_WitnessMessage ==
  /\ pc = "failed"
  /\ input.userMessage = <<" ", "NL">>
  /\ outcome.error = "User message is required"

OkTurns == Cardinality({i \in DOMAIN turns : turns[i].status = "ok"})

\* C16: the persisted turn_index counts the successful turns: a turn that
\* returns saves shared.turn_index one above the loaded value with
\* runtime.turn_index equal to it, a turn that throws leaves the store as it
\* was, and from createInitialRoomState the persisted turn_index is the
\* number of successful turns of the series.
C16_TurnIndexCounts ==
  /\ store.shared.turn_index = store.runtime.turn_index
  /\ store.shared.turn_index = OkTurns + (IF pc = "done" THEN 1 ELSE 0)
  /\ pc = "done" => store.shared.turn_index = state.shared.turn_index + 1
  /\ pc = "failed" => (Count("loadState") = 1 => store = state)

C16_Witness ==
  /\ pc = "done"
  /\ OkTurns = 2
  /\ Len(turns) = 4
  /\ turns[1].status = "error"
  /\ turns[3].status = "error"
  /\ store.shared.turn_index = 3

\* Every note roomie id was given by the first n turns of the series, oldest first.
RECURSIVE NotesGiven(_, _)
NotesGiven(id, n) ==
  IF n = 0 THEN <<>> ELSE NotesGiven(id, n - 1) \o turns[n].notes[id]

\* C17: from createInitialRoomState, after any series of turns every
\* roomie's persisted agent_memory holds at most MAX_AGENT_MEMORY notes and
\* is the tail of all the notes the roomie was given, in the order they were
\* given: when the notes pass the limit the oldest ones are the ones dropped.
C17_MemoryKeepsNewest ==
  \A id \in RoomieIds :
    /\ Len(store.shared.agent_memory[id]) <= MAX_AGENT_MEMORY
    /\ pc = "idle" =>
         store.shared.agent_memory[id] = LastN(NotesGiven(id, Len(turns)), MAX_AGENT_MEMORY)
    /\ pc = "done" =>
         store.shared.agent_memory[id] =
           LastN(state.shared.agent_memory[id] \o TurnNotes(id, Len(acc.beatLog)), MAX_AGENT_MEMORY)

\* Thirteen notes were given, the first of them in a turn that gave one note:
\* the memory holds the twelve notes after it.
C17_Witness ==
  /\ pc = "idle"
  /\ Len(NotesGiven(1, Len(turns))) = MAX_AGENT_MEMORY + 1
  /\ turns[1].notes[1] = << <<"a", "b", "f">> >>
  /\ Len(store.shared.agent_memory[1]) = MAX_AGENT_MEMORY
  /\ store.shared.agent_memory[1][1] = <<"a", "b", "c">>

\* A speaker output without its thought lines.
ThoughtFree(raw) == SelectSeq(raw, LAMBDA line : ~(line.kind = "object" /\ line.type = "thought"))

ParsedNow(raw) ==
  parseNdjsonTheatricalEvents(raw, CurrentRoomie.name, CurrentBeat.beatId, "roomie",
                              shared.turn_index + 1, acc.counter)

\* The in-turn history the following beats get when the current beat's
\* speaker call returns raw.
HistoryAfter(raw) ==
  FinishBeat(BeginBeat(acc), ParsedNow(raw), raw, CurrentBeat, CurrentRoomie).turnHistoryLines

ThoughtsOfTurn ==
  {acc.allEvents[i] : i \in {j \in DOMAIN acc.allEvents : acc.allEvents[j].type = "thought"}}
  \cup UNION {{acc.beatLog[k].accepted[i] :
                 i \in {j \in DOMAIN acc.beatLog[k].accepted : acc.beatLog[k].accepted[j].type = "thought"}} :
              k \in DOMAIN acc.beatLog}

\* The history lines, the messages and the prompt memories of the turn hold
\* no thought of the turn that is not the prompted roomie's own.
ThoughtsStayOut ==
  /\ pc \in {"speaker", "speakerRepair"} =>
       acc.turnHistoryLines =
         buildHistoryLines(shared.last_messages, input) \o
         [i \in 1..Len(NonThought(acc.allEvents)) |-> eventToHistoryLine(NonThought(acc.allEvents)[i])]
  /\ pc \in {"summarizer", "saveState", "done"} =>
       \A e \in ThoughtsOfTurn :
         /\ \A i \in DOMAIN summarizedShared.last_messages :
              summarizedShared.last_messages[i].text # eventToHistoryLine(e)
         /\ pc = "done" =>
              \A i \in DOMAIN store.shared.last_messages :
                store.shared.last_messages[i].text # eventToHistoryLine(e)
  /\ \A k \in DOMAIN acc.prompts :
       /\ \A i \in DOMAIN acc.prompts[k].historyLines :
            \A e \in ThoughtsOfTurn : acc.prompts[k].historyLines[i] # eventToHistoryLine(e)
       /\ \A n \in DOMAIN acc.prompts[k].agentMemory :
            \/ \E m \in DOMAIN state.shared.agent_memory[acc.prompts[k].agentId] :
                 state.shared.agent_memory[acc.prompts[k].agentId][m] = acc.prompts[k].agentMemory[n]
            \/ \E j \in 1..(k - 1) :
                 /\ acc.prompts[j].agentId = acc.prompts[k].agentId
                 /\ \E e \in ThoughtsOfTurn :
                      /\ e.beatId = acc.beatLog[j].beatId
                      /\ e.content = acc.prompts[k].agentMemory[n]

\* C18: thoughts never leave their author: no thought of the turn adds a
\* line to the in-turn history or to the persisted last_messages, a speaker
\* prompt holds only the prompted roomie's own notes, and two outputs of a
\* beat that differ only in their thought lines leave the same in-turn
\* history to the beats that follow.
C18_ThoughtsNeverLeak ==
  /\ ThoughtsStayOut
  /\ pc = "speaker" =>
       \A r1, r2 \in SpeakerRaws :
         /\ ThoughtFree(r1) = ThoughtFree(r2)
         /\ ParsedNow(r1).ok
         /\ ParsedNow(r2).ok
         => HistoryAfter(r1) = HistoryAfter(r2)

\* The shared state the beats leave to the compaction step.
BeforeCompaction == SharedWithMessages(acc)

RECURSIVE TextChars(_)
TextChars(messages) ==
  IF messages = <<>> THEN 0 ELSE Len(messages[1].text) + TextChars(Tail(messages))

\* goal + summary_window + all message text reaches the threshold and a
\* summarizer model is configured.
CompactionTriggered ==
  /\ input.host.summarizerModel
  /\ Len(BeforeCompaction.goal) + Len(BeforeCompaction.summary_window)
       + TextChars(BeforeCompaction.last_messages)
     >= (IF input.host.compactEveryChars > 0 THEN input.host.compactEveryChars ELSE 12000)

KeepN == IF input.host.compactKeepMessages >= 0 THEN input.host.compactKeepMessages ELSE 5

\* kept is the most recent n entries of messages, in their order.
MostRecent(kept, messages, n) ==
  /\ Len(kept) = Min(n, Len(messages))
  /\ \A i \in DOMAIN kept : kept[i] = messages[Len(messages) - Len(kept) + i]

\* C19: when the character estimate reaches the threshold and a summarizer
\* model is configured, the turn issues exactly one summarizer call; the call
\* that returns raw leaves summary_window as the normalized raw, or as the
\* previous window when that is blank, and last_messages as its most recent N
\* entries in their order (N = compactKeepMessages, 5 by default); this is
\* what the turn saves.
C19_Compaction ==
  [][/\ \A raw \in Summaries :
          Summarizer(raw) =>
            /\ CompactionTriggered
            /\ summarizedShared'.summary_window =
                 (IF compact(raw) = <<>> THEN BeforeCompaction.summary_window ELSE compact(raw))
            /\ MostRecent(summarizedShared'.last_messages, BeforeCompaction.last_messages, KeepN)
     /\ SaveState /\ CompactionTriggered =>
          /\ Count("summarizer") = 1
          /\ store'.shared.summary_window = summarizedShared.summary_window
          /\ store'.shared.last_messages = summarizedShared.last_messages
          /\ MostRecent(store'.shared.last_messages, BeforeCompaction.last_messages, KeepN)]_vars

\* A turn was saved whose compaction cut six messages down to the default
\* five and kept the previous window because the summarizer returned blank.
C19_Witness ==
  /\ pc = "done"
  /\ Count("summarizer") = 1
  /\ input.host.compactKeepMessages = -1
  /\ Len(BeforeCompaction.last_messages) = 6
  /\ Len(store.shared.last_messages) = 5
  /\ store.shared.summary_window = state.shared.summary_window
  /\ state.shared.summary_window # <<>>

C19_WitnessKeepNone ==
  /\ pc = "done"
  /\ Count("summarizer") = 1
  /\ input.host.compactKeepMessages = 0
  /\ store.shared.last_messages = <<>>
  /\ store.shared.summary_window # <<>>

\* C20: a turn whose compaction is not triggered issues no summarizer call
\* and saves the summary_window it loaded and the loaded last_messages
\* followed by the turn's user entry and one entry per non-thought event;
\* with or without compaction, the saved goal and agent_memory are the ones
\* the beats left.
C20_PassThrough ==
  /\ pc \in {"saveState", "done"} =>
       /\ summarizedShared.goal = BeforeCompaction.goal
       /\ summarizedShared.agent_memory = BeforeCompaction.agent_memory
       /\ ~CompactionTriggered =>
            /\ Count("summarizer") = 0
            /\ summarizedShared = BeforeCompaction
  /\ pc = "done" =>
       /\ store.shared.goal = BeforeCompaction.goal
       /\ store.shared.agent_memory = acc.privateMemory
       /\ ~CompactionTriggered =>
            /\ store.shared.summary_window = state.shared.summary_window
            /\ store.shared.last_messages = BeforeCompaction.last_messages
            /\ SubSeq(store.shared.last_messages, 1, Len(state.shared.last_messages))
                 = state.shared.last_messages
            /\ Len(store.shared.last_messages)
                 = Len(state.shared.last_messages) + 1 + Len(NonThought(acc.allEvents))

\* A turn below the threshold was saved with a summarizer configured: the
\* window of an earlier compaction and all four messages are still there.
C20_Witness ==
  /\ pc = "done"
  /\ input.host.summarizerModel
  /\ ~CompactionTriggered
  /\ Count("summarizer") = 0
  /\ state.shared.summary_window # <<>>
  /\ Len(state.shared.last_messages) = 2
  /\ Len(store.shared.last_messages) = 4
  /\ store.shared.agent_memory[1] # <<>>

\* A compaction ran on a state with a goal and memory notes.
C20_WitnessCompacted ==
  /\ pc = "done"
  /\ Count("summarizer") = 1
  /\ store.shared.goal # <<>>
  /\ Len(store.shared.agent_memory[1]) >= 2

Capped21 == call.results[1]

CountType(events, type) == Cardinality({i \in DOMAIN events : events[i].type = type})

SpeaksOf(events) == SelectSeq(events, LAMBDA event : event.type = "speak")

C21_WitnessSpeaks ==
  /\ call.fn = "applyBudgetCaps"
  /\ call.results # <<>>
  /\ CountType(call.events, "speak") = 3
  /\ CountType(Capped21, "speak") = 3

\* A thought came back one character long under maxThoughtCharsPerEvent = 0.
C21_WitnessOneChar ==
  /\ call.fn = "applyBudgetCaps"
  /\ call.results # <<>>
  /\ call.budget.maxThoughtCharsPerEvent <= 0
  /\ \E i \in DOMAIN Capped21 : Capped21[i].type = "thought" /\ Len(Capped21[i].content) = 1

Deduped22 == call.results[1]

\* The case-insensitive (author, type, content) key of an event.
TripleKey(event) == <<toLowerCase(event.author), event.type, toLowerCase(event.content)>>

\* The positions of events that hold a speak event or the first occurrence
\* of an (author, type, content) key among the action and thought events.
FirstOfKey(events) ==
  SelectSeq([i \in 1..Len(events) |-> i],
            LAMBDA i : \/ events[i].type = "speak"
                       \/ \A j \in 1..(i - 1) :
                            events[j].type = "speak" \/ TripleKey(events[j]) # TripleKey(events[i]))

\* Idempotence, and every speak event kept in its place.
DedupeIdempotent ==
  call.fn = "dedupeSimilarEvents" =>
    /\ Len(call.results) = 2 => call.results[2] = call.results[1]
    /\ call.results # <<>> => SpeaksOf(Deduped22) = SpeaksOf(call.events)

\* C22: dedupeSimilarEvents is idempotent, returns the speak events all of
\* them and, of the action and thought events, the first occurrence of each
\* case-insensitive (author, type, content) key, in input order.
C22_DedupeFirstOfKey ==
  /\ DedupeIdempotent
  /\ call.fn = "dedupeSimilarEvents" /\ call.results # <<>> =>
       Deduped22 = [k \in 1..Len(FirstOfKey(call.events)) |-> call.events[FirstOfKey(call.events)[k]]]

Parsed23 == call.results[1]

ParseReturned == call.fn = "parseNdjsonTheatricalEvents" /\ call.results # <<>>

\* The lines of the output that are not blank, in order.
NonBlank23 == SelectSeq(call.raw, LAMBDA line : line.kind # "blank")

\* The line is a JSON object with a known type, an author (its own or the
\* default one) and content that is not blank.
WellFormed(line) ==
  /\ line.kind = "object"
  /\ line.type \in {"speak", "action", "thought"}
  /\ Trim(line.author) # <<>> \/ call.defaultAuthor # <<>>
  /\ compact(line.content) # <<>>

\* C23: parseNdjsonTheatricalEvents is all-or-nothing: it returns ok exactly
\* when the output has a non-blank line and every non-blank line is a
\* well-formed event, and then one event per non-blank line in input order;
\* with a single bad line it returns a failure that holds no event.
C23_AllOrNothing ==
  ParseReturned =>
    /\ Parsed23.ok <=> (NonBlank23 # <<>> /\ \A i \in DOMAIN NonBlank23 : WellFormed(NonBlank23[i]))
    /\ Parsed23.ok =>
         /\ Len(Parsed23.events) = Len(NonBlank23)
         /\ \A i \in DOMAIN NonBlank23 :
              /\ Parsed23.events[i].type = NonBlank23[i].type
              /\ Parsed23.events[i].content = compact(NonBlank23[i].content)
    /\ ~Parsed23.ok => Parsed23.events = <<>> /\ Parsed23.reason # ""

\* A well-formed line followed by a bad one: a failure without events.
C23_Witness ==
  /\ ParseReturned
  /\ Len(NonBlank23) = 2
  /\ WellFormed(NonBlank23[1])
  /\ ~WellFormed(NonBlank23[2])
  /\ ~Parsed23.ok
  /\ Parsed23.events = <<>>

\* Two different well-formed lines: both returned, in order.
C23_WitnessOk ==
  /\ ParseReturned
  /\ Len(call.raw) = 2
  /\ Parsed23.ok
  /\ Len(Parsed23.events) = 2
  /\ Parsed23.events[1].type = "thought"
  /\ Parsed23.events[2].type = "action"

\* The reason C24 states for a line, "" for a line it does not call bad.
StatedReason(line) ==
  CASE line.kind # "object" -> "invalid-json-line"
    [] line.type \notin {"speak", "action", "thought"} -> "invalid-type"
    [] Trim(line.author) = <<>> -> "missing-author"
    [] compact(line.content) = <<>> -> "empty-content"
    [] OTHER -> ""

\* The reason the checks of the loop give for a line: text that is not JSON,
\* JSON that is not an object, an unknown type, no author of its own and no
\* default author, blank content.
CheckedReason(line) ==
  CASE line.kind = "not-json" -> "invalid-json-line"
    [] line.kind # "object" -> "invalid-object"
    [] line.type \notin {"speak", "action", "thought"} -> "invalid-type"
    [] Trim(line.author) = <<>> /\ call.defaultAuthor = <<>> -> "missing-author"
    [] compact(line.content) = <<>> -> "empty-content"
    [] OTHER -> ""

\* The first non-blank line with a reason under each reading, 0 without one.
FirstStated ==
  LET bad == {i \in DOMAIN NonBlank23 : StatedReason(NonBlank23[i]) # ""}
  IN  IF bad = {} THEN 0 ELSE CHOOSE i \in bad : \A j \in bad : i <= j

FirstChecked ==
  LET bad == {i \in DOMAIN NonBlank23 : CheckedReason(NonBlank23[i]) # ""}
  IN  IF bad = {} THEN 0 ELSE CHOOSE i \in bad : \A j \in bad : i <= j

\* C24 as stated: the failure reason is 'empty-output' for blank input and
\* otherwise that of the first bad line: 'invalid-json-line' for a line that
\* is not a JSON object, 'invalid-type', 'missing-author' for a blank author,
\* 'empty-content'.
C24_ReasonsAsStated ==
  ParseReturned =>
    IF NonBlank23 = <<>> THEN ~Parsed23.ok /\ Parsed23.reason = "empty-output"
    ELSE FirstStated # 0 =>
           ~Parsed23.ok /\ Parsed23.reason = StatedReason(NonBlank23[FirstStated])

\* C24 with the reasons of the code: JSON that is not an object fails with
\* 'invalid-object', and a blank author fails with 'missing-author' only
\* when the default author is empty too.
C24_Reasons ==
  ParseReturned =>
    IF NonBlank23 = <<>> THEN ~Parsed23.ok /\ Parsed23.reason = "empty-output"
    ELSE /\ Parsed23.ok <=> FirstChecked = 0
         /\ FirstChecked # 0 => Parsed23.reason = CheckedReason(NonBlank23[FirstChecked])

\* A line without author and without default author before a line that is
\* not JSON: the failure names the first one.
C24_Witness ==
  /\ ParseReturned
  /\ Len(NonBlank23) = 2
  /\ CheckedReason(NonBlank23[1]) = "missing-author"
  /\ CheckedReason(NonBlank23[2]) = "invalid-json-line"
  /\ Parsed23.reason = "missing-author"

C24_WitnessInvalidObject ==
  /\ ParseReturned
  /\ Parsed23.reason = "invalid-object"

C24_WitnessDefaultAuthor ==
  /\ ParseReturned
  /\ Len(NonBlank23) = 1
  /\ Trim(NonBlank23[1].author) = <<>>
  /\ Parsed23.ok
  /\ Parsed23.events[1].author = <<"A">>

C24_WitnessBlankInput ==
  /\ ParseReturned
  /\ Len(call.raw) = 2
  /\ Parsed23.reason = "empty-output"

HintedOrigin == IF call.origin = "" THEN "roomie" ELSE call.origin

\* C25: when every line parses, each event has the visibility of its line
\* or, when that is absent or invalid, private for a thought and public
\* otherwise; the origin of its line or else the origin hint ("roomie"
\* without a hint); the intensity of its line clamped to 1..5 or, when
\* absent, 2 for speak and 3 otherwise; and the current schema version.
C25_Defaults ==
  ParseReturned /\ Parsed23.ok =>
    \A i \in DOMAIN Parsed23.events :
      LET line == NonBlank23[i]
          event == Parsed23.events[i]
      IN  /\ event.visibility =
               (IF line.visibility \in {"public", "private"} THEN line.visibility
                ELSE IF line.type = "thought" THEN "private" ELSE "public")
          /\ event.origin =
               (IF line.origin \in {"roomie", "director", "repair"} THEN line.origin
                ELSE HintedOrigin)
          /\ ~line.intensity.has => event.intensity = (IF line.type = "speak" THEN 2 ELSE 3)
          /\ line.intensity.has /\ line.intensity.v \in 1..5 => event.intensity = line.intensity.v
          /\ line.intensity.has /\ line.intensity.v > 5 => event.intensity = 5
          /\ line.intensity.has /\ line.intensity.v < 1 => event.intensity = 1
          /\ event.intensity \in 1..5
          /\ event.schemaVersion = THEATRICAL_EVENT_SCHEMA_VERSION

\* A thought without optional fields parsed under the hint "repair", after
\* an action with an invalid visibility and an intensity of 9.
C25_Witness ==
  /\ ParseReturned
  /\ Parsed23.ok
  /\ call.origin = "repair"
  /\ Len(Parsed23.events) = 2
  /\ NonBlank23[1].visibility = "secret"
  /\ Parsed23.events[1].visibility = "public"
  /\ Parsed23.events[1].intensity = 5
  /\ Parsed23.events[1].origin = "director"
  /\ NonBlank23[2].type = "thought"
  /\ NonBlank23[2].visibility = ""
  /\ Parsed23.events[2].visibility = "private"
  /\ Parsed23.events[2].intensity = 3
  /\ Parsed23.events[2].origin = "repair"

C25_WitnessNoHint ==
  /\ ParseReturned
  /\ Parsed23.ok
  /\ call.origin = ""
  /\ Len(Parsed23.events) = 1
  /\ NonBlank23[1].origin = "bogus"
  /\ Parsed23.events[1].origin = "roomie"
  /\ Parsed23.events[1].intensity = 1

\* The director output is a JSON object whose beats array has one entry per
\* active roomie, each an object with the id of an active roomie.
OneEntryEach(raw) ==
  /\ raw.kind \in {"object", "wrapped"}
  /\ raw.hasBeats
  /\ Len(raw.beats) = Len(activeRoomies)
  /\ \A k \in DOMAIN raw.beats :
       /\ raw.beats[k].isObject
       /\ \E r \in DOMAIN activeRoomies : activeRoomies[r].id = raw.beats[k].agent_id
  /\ \A j, k \in DOMAIN raw.beats : j # k => raw.beats[j].agent_id # raw.beats[k].agent_id

\* The plan of the next state has one beat per entry of raw, in their order.
BeatsFollow(raw) ==
  /\ Len(directorPlan'.beats) = Len(activeRoomies)
  /\ \A k \in DOMAIN raw.beats : directorPlan'.beats[k].agentId = raw.beats[k].agent_id

\* C26 as stated: a director output with one entry per active roomie, each
\* with a valid agent_id, yields a plan with trace.source = "model" and one
\* beat per active roomie in the order of the entries.
C26_PlanAsStated ==
  [][\A raw \in DirectorRaws :
       (DirectorCall(raw) \/ DirectorRepair(raw)) /\ OneEntryEach(raw) =>
         directorPlan'.trace.source = "model" /\ BeatsFollow(raw)]_vars

\* C26 with the source the engine records: "model" when the output is that
\* of the primary director call, "repair" when it is that of the repair call.
C26_Plan ==
  [][\A raw \in DirectorRaws :
       /\ DirectorCall(raw) /\ OneEntryEach(raw) =>
            /\ directorPlan'.trace.source = "model"
            /\ directorPlan'.trace.attempts = 1
            /\ BeatsFollow(raw)
       /\ DirectorRepair(raw) /\ OneEntryEach(raw) =>
            /\ directorPlan'.trace.source = "repair"
            /\ directorPlan'.trace.attempts = 2
            /\ BeatsFollow(raw)]_vars

\* The primary call gave a plan for two active roomies, the second one's
\* entry first.
C26_Witness ==
  /\ Len(activeRoomies) = 2
  /\ directorPlan.trace.source = "model"
  /\ Len(directorPlan.beats) = 2
  /\ directorPlan.beats[1].agentId = 2
  /\ directorPlan.beats[2].agentId = 1

C26_WitnessRepair ==
  /\ Len(activeRoomies) = 2
  /\ directorPlan.trace.source = "repair"
  /\ Len(directorPlan.beats) = 2
  /\ directorPlan.beats[1].agentId = 2
  /\ directorPlan.beats[2].agentId = 1

OnEvents == SelectSeq(acc.callbacks, LAMBDA c : c.kind = "onEvent")

OnBeatStarts == SelectSeq(acc.callbacks, LAMBDA c : c.kind = "onBeatStart")

\* The position in the plan of the beat with this id, 0 for none.
BeatIndexOf(beatId) ==
  IF \E k \in DOMAIN directorPlan.beats : directorPlan.beats[k].beatId = beatId
    THEN CHOOSE k \in DOMAIN directorPlan.beats : directorPlan.beats[k].beatId = beatId
    ELSE 0

\* C27: at every step of the turn the onEvent calls made are one per event
\* of the event list, in the order of the list, and the turn returns that
\* list; the onBeatStart calls are one per beat begun, in plan order, each
\* after every onEvent of the earlier beats and before every onEvent of its
\* own beat.
C27_CallbackOrder ==
  /\ Len(OnEvents) = Len(acc.allEvents)
  /\ \A i \in DOMAIN OnEvents :
       /\ OnEvents[i].eventId = acc.allEvents[i].eventId
       /\ OnEvents[i].beatId = acc.allEvents[i].beatId
  /\ pc = "done" => outcome.events = acc.allEvents
  /\ \A k \in DOMAIN OnBeatStarts : OnBeatStarts[k].beatId = directorPlan.beats[k].beatId
  /\ pc \in {"speaker", "speakerRepair"} =>
       Len(OnBeatStarts) = (IF pc = "speaker" THEN index - 1 ELSE index)
  /\ pc \in {"summarizer", "saveState", "done"} => Len(OnBeatStarts) = Len(directorPlan.beats)
  /\ \A p, q \in DOMAIN acc.callbacks :
       acc.callbacks[p].kind = "onBeatStart" /\ acc.callbacks[q].kind = "onEvent" =>
         /\ q < p => BeatIndexOf(acc.callbacks[q].beatId) < BeatIndexOf(acc.callbacks[p].beatId)
         /\ q > p => BeatIndexOf(acc.callbacks[q].beatId) >= BeatIndexOf(acc.callbacks[p].beatId)

\* A turn of two beats returned three events: onBeatStart, two onEvent,
\* onBeatStart, onEvent.
C27_Witness ==
  /\ pc = "done"
  /\ Len(outcome.events) = 3
  /\ Len(acc.callbacks) = 5
  /\ acc.callbacks[1].kind = "onBeatStart"
  /\ acc.callbacks[2].kind = "onEvent"
  /\ acc.callbacks[3].kind = "onEvent"
  /\ acc.callbacks[4].kind = "onBeatStart"
  /\ acc.callbacks[5].kind = "onEvent"
  /\ acc.callbacks[5].eventId = outcome.events[3].eventId

\* C28: no event of a type its beat disallows is in the event list: an
\* action event belongs to a beat with allowAction, a thought event to a beat
\* with allowThought; and a turn run under a fallback plan returns exactly
\* one speak event per active roomie, in roster order.
C28_DisallowedDropped ==
  /\ \A i \in DOMAIN acc.allEvents :
       LET k == BeatIndexOf(acc.allEvents[i].beatId)
       IN  /\ acc.allEvents[i].type = "action" => k # 0 /\ directorPlan.beats[k].allowAction
           /\ acc.allEvents[i].type = "thought" => k # 0 /\ directorPlan.beats[k].allowThought
  /\ pc = "done" /\ outcome.status = "ok" => outcome.events = acc.allEvents
  /\ pc = "done" /\ outcome.status = "ok" /\ directorPlan.trace.source = "fallback" =>
       /\ Len(outcome.events) = Len(activeRoomies)
       /\ \A i \in DOMAIN outcome.events :
            /\ outcome.events[i].type = "speak"
            /\ outcome.events[i].beatId = directorPlan.beats[i].beatId
            /\ directorPlan.beats[i].agentId = activeRoomies[i].id
            /\ outcome.events[i].author = activeRoomies[i].name

\* A beat that allows neither type had a parsed speaker output of which no
\* speak event was accepted, and contributed its fallback line only.
C28_Witness ==
  /\ pc = "done"
  /\ outcome.status = "ok"
  /\ directorPlan.trace.source = "model"
  /\ \E k \in DOMAIN acc.beatLog :
       /\ ~directorPlan.beats[k].allowAction
       /\ ~directorPlan.beats[k].allowThought
       /\ acc.beatLog[k].parsed
       /\ acc.beatLog[k].fallback
  /\ \A i \in DOMAIN outcome.events : outcome.events[i].type = "speak"

\* Two active roomies under a fallback plan: two speak events.
C28_WitnessFallbackPlan ==
  /\ pc = "done"
  /\ outcome.status = "ok"
  /\ directorPlan.trace.source = "fallback"
  /\ Len(activeRoomies) = 2
  /\ Len(outcome.events) = 2
  /\ \E k \in DOMAIN acc.beatLog : acc.beatLog[k].parsed /\ acc.beatLog[k].fallback

\* The maxEvents the claim gives for a director entry's max_events.
StatedMaxEvents(value) ==
  IF ~value.has THEN 2
  ELSE IF value.v < 1 THEN 1
  ELSE IF value.v > 4 THEN 4
  ELSE value.v

\* The bounds of the plan and of the events list in one state.
MaxEventsBounds ==
  /\ Len(directorPlan.beats) <= Len(activeRoomies)
  /\ \A k \in DOMAIN directorPlan.beats :
       /\ directorPlan.beats[k].maxEvents \in 1..4
       /\ directorPlan.trace.source = "fallback" => directorPlan.beats[k].maxEvents = 1
       /\ Len(EventsOfBeat(acc.allEvents, directorPlan.beats[k].beatId)) <= directorPlan.beats[k].maxEvents
  /\ \A i \in DOMAIN acc.allEvents : BeatIndexOf(acc.allEvents[i].beatId) # 0
  /\ Len(acc.allEvents) <= 4 * Len(activeRoomies)
  /\ pc = "done" /\ outcome.status = "ok" =>
       /\ outcome.events = acc.allEvents
       /\ Len(outcome.events) <= 4 * Len(activeRoomies)

\* C29: every beat's maxEvents is in 1..4, it is 1 in a fallback plan, and
\* for a director output with one valid entry per active roomie it is the
\* entry's max_events clamped to 1..4, or 2 when the entry has none; the
\* events list never holds more than maxEvents events of one beat, nor more
\* than 4 events per active roomie.
C29_MaxEvents ==
  [][/\ MaxEventsBounds'
     /\ \A raw \in DirectorRaws :
          (DirectorCall(raw) \/ DirectorRepair(raw)) /\ OneEntryEach(raw) =>
            \A k \in DOMAIN raw.beats :
              directorPlan'.beats[k].maxEvents = StatedMaxEvents(raw.beats[k].max_events)]_vars

\* A finished turn of two beats: the first entry asked for 9 events and got
\* 4, the second gave no max_events and got 2, and the second beat
\* contributed as many events as its maxEvents.
C29_Witness ==
  /\ pc = "done"
  /\ outcome.status = "ok"
  /\ directorPlan.trace.source = "model"
  /\ Len(directorPlan.beats) = 2
  /\ directorPlan.beats[1].maxEvents = 4
  /\ directorPlan.beats[2].maxEvents = 2
  /\ Len(EventsOfBeat(outcome.events, directorPlan.beats[2].beatId)) = 2

\* A beat of maxEvents 1 that allows thoughts kept the first event of a
\* parsed output and nothing after it.
C29_WitnessCut ==
  /\ pc = "done"
  /\ outcome.status = "ok"
  /\ \E k \in DOMAIN acc.beatLog :
       /\ directorPlan.trace.source = "model"
       /\ directorPlan.beats[k].maxEvents = 1
       /\ directorPlan.beats[k].allowThought
       /\ acc.beatLog[k].parsed
       /\ ~acc.beatLog[k].fallback
       /\ Len(EventsOfBeat(outcome.events, directorPlan.beats[k].beatId)) = 1

\* A fallback plan for two active roomies: maxEvents 1 in both beats.
C29_WitnessFallbackPlan ==
  /\ directorPlan.trace.source = "fallback"
  /\ Len(directorPlan.beats) = 2
  /\ \A k \in DOMAIN directorPlan.beats : directorPlan.beats[k].maxEvents = 1
  /\ pc = "done"

SpeakerOps == SelectSeq(ops, LAMBDA o : o.op = "speaker")

\* The events of the beats before beat k, as the event list orders them.
EventsBeforeBeat(k) == SelectSeq(acc.allEvents, LAMBDA e : BeatIndexOf(e.beatId) < k)

LinesOf(events) == [i \in 1..Len(events) |-> eventToHistoryLine(events[i])]

LoadedHistory == buildHistoryLines(shared.last_messages, input)

\* C30: the primary speaker calls are one per beat begun, for beats 1, 2,
\* ... in plan order, and a finished turn has made one for every beat of the
\* plan; the event list is ordered by beat; and the prompt of beat k is for
\* the roomie of beat k and its history is the loaded history followed by the
\* history lines of the non-thought events of beats 1..k-1 in the order of
\* the event list.
C30_BeatsInOrder ==
  /\ \A i \in DOMAIN SpeakerOps : SpeakerOps[i].beat = i
  /\ Len(SpeakerOps) <= Len(directorPlan.beats)
  /\ pc = "speaker" => Len(SpeakerOps) = index - 1 /\ Len(acc.beatLog) = index - 1
  /\ pc = "speakerRepair" => Len(SpeakerOps) = index /\ Len(acc.beatLog) = index - 1
  /\ pc \in {"summarizer", "saveState", "done"} =>
       Len(SpeakerOps) = Len(directorPlan.beats) /\ Len(acc.beatLog) = Len(directorPlan.beats)
  /\ \A i, j \in DOMAIN acc.allEvents :
       i < j => BeatIndexOf(acc.allEvents[i].beatId) <= BeatIndexOf(acc.allEvents[j].beatId)
  /\ pc # "failed" => Len(acc.prompts) = Len(SpeakerOps)
  /\ \A k \in DOMAIN acc.prompts :
       /\ acc.prompts[k].agentId = directorPlan.beats[k].agentId
       /\ acc.prompts[k].historyLines = LoadedHistory \o LinesOf(NonThought(EventsBeforeBeat(k)))

\* The second beat of a turn after the first one was prompted with the
\* loaded history, which is not empty, followed by the line of the first
\* beat's speak event; the first beat also emitted a thought, which has no
\* line.
C30_Witness ==
  /\ pc = "done"
  /\ outcome.status = "ok"
  /\ Len(turns) >= 1
  /\ LoadedHistory # <<>>
  /\ Len(directorPlan.beats) = 2
  /\ Len(acc.prompts) = 2
  /\ acc.prompts[1].historyLines = LoadedHistory
  /\ Len(EventsBeforeBeat(2)) = 2
  /\ Len(NonThought(EventsBeforeBeat(2))) = 1
  /\ Len(acc.prompts[2].historyLines) = Len(LoadedHistory) + 1
  /\ Len(EventsOfBeat(acc.allEvents, directorPlan.beats[2].beatId)) = 2

\* The agent entry the history gets for a returned event.
AgentEntryOf(event) ==
  [role |-> "agent", agent_id |-> directorPlan.beats[BeatIndexOf(event.beatId)].agentId,
   text |-> eventToHistoryLine(event), turn_index |-> shared.turn_index]

\* The loaded messages, the user entry, and an agent entry per non-thought
\* event of the event list.
MessagesOfTurn ==
  shared.last_messages
    \o <<[role |-> "user", agent_id |-> 0, text |-> compact(input.userMessage),
          turn_index |-> shared.turn_index]>>
    \o [i \in 1..Len(NonThought(acc.allEvents)) |-> AgentEntryOf(NonThought(acc.allEvents)[i])]

\* C31: when the beats are over the shared last_messages is the loaded
\* last_messages, then a user entry with the normalized user message, then
\* an agent entry per non-thought event of the event list in its order, each
\* with the loaded turn_index and the agent id of the event's beat; this is
\* what the summarizer step finds and, when no compaction ran, what is saved.
C31_HistoryAppended ==
  /\ pc = "summarizer" => summarizedShared.last_messages = MessagesOfTurn
  /\ pc \in {"saveState", "done"} /\ Count("summarizer") = 0 =>
       summarizedShared.last_messages = MessagesOfTurn
  /\ pc = "done" /\ outcome.status = "ok" /\ Count("summarizer") = 0 =>
       /\ outcome.events = acc.allEvents
       /\ store.shared.last_messages = MessagesOfTurn

\* A later turn of two roomies saved a history that holds the loaded
\* messages and entries of both roomies, and left out a thought.
C31_Witness ==
  /\ pc = "done"
  /\ outcome.status = "ok"
  /\ shared.last_messages # <<>>
  /\ \E i \in DOMAIN outcome.events : outcome.events[i].type = "thought"
  /\ \E i \in DOMAIN outcome.events : outcome.events[i].type = "action"
  /\ Len(store.shared.last_messages) = Len(shared.last_messages) + 1 + Len(NonThought(outcome.events))
  /\ \E i, j \in DOMAIN store.shared.last_messages :
       /\ i > Len(shared.last_messages) + 1
       /\ j > i
       /\ store.shared.last_messages[i].agent_id = 2
       /\ store.shared.last_messages[j].agent_id = 1

\* The plan a plan builder called on its own returned, NoPlan for none.
PlanBuilt ==
  IF call.fn \in {"parseDirectorPlanSchema", "buildFallbackPlan"} /\ call.results # <<>>
       /\ call.results[1].ok
    THEN call.results[1].plan
    ELSE NoPlan

\* The k-th beat of plan is b<turnIndex+1>-<k>, for every k.
IdsByPosition(plan, turnIndex) ==
  /\ \A k \in DOMAIN plan.beats :
       plan.beats[k].beatId = [p |-> "b", a |-> turnIndex + 1, b |-> k]
  /\ \A j, k \in DOMAIN plan.beats : j # k => plan.beats[j].beatId # plan.beats[k].beatId

\* C32: in every plan, that of a valid director output as well as the
\* fallback plan, the k-th beat has the id b<turnIndex+1>-<k>, so the ids of
\* a plan are pairwise distinct and numbered 1, 2, ... whatever entries of
\* the director output were skipped; the plan of a turn is numbered by the
\* loaded turn index.
C32_BeatIds ==
  /\ IdsByPosition(PlanBuilt, call.turnIndex)
  /\ IdsByPosition(directorPlan, shared.turn_index)

\* From a beats array of a junk entry, an entry of roomie 2
\* and an entry of roomie 1, at turn index 2: beats b3-1 of
\* roomie 2 and b3-2 of roomie 1.
C32_Witness ==
  /\ call.fn = "parseDirectorPlanSchema"
  /\ call.turnIndex = 2
  /\ Len(call.raw.beats) = 3
  /\ ~call.raw.beats[1].isObject
  /\ call.raw.beats[2].agent_id = 2
  /\ call.raw.beats[3].agent_id = 1
  /\ Len(PlanBuilt.beats) = 2
  /\ PlanBuilt.beats[1].agentId = 2
  /\ PlanBuilt.beats[2].beatId = [p |-> "b", a |-> 3, b |-> 2]

\* A repeated entry between two valid ones is skipped without a gap.
C32_WitnessDuplicate ==
  /\ call.fn = "parseDirectorPlanSchema"
  /\ Len(call.raw.beats) = 3
  /\ call.raw.beats[1].agent_id = 2
  /\ call.raw.beats[2].agent_id = 2
  /\ call.raw.beats[3].agent_id = 1
  /\ Len(PlanBuilt.beats) = 2
  /\ PlanBuilt.beats[2].agentId = 1

\* A fallback plan for two roomies at turn index 1.
C32_WitnessFallbackPlan ==
  /\ call.fn = "buildFallbackPlan"
  /\ call.turnIndex = 1
  /\ Len(PlanBuilt.beats) = 2

PlanHistory == store.runtime.director_plan_history

\* C33: the saved director_plan_history changes only when a turn saves its
\* state, and then becomes the history before it with the turn's plan at
\* its end, without its oldest plan when it held DIRECTOR_HISTORY_LIMIT = 10
\* plans; it never holds more than 10 plans, the last one is the plan
\* returned by the most recent turn that returned, and its plans are those
\* of consecutive turns in turn order.
C33_PlanHistoryRing ==
  [][/\ Len(PlanHistory') <= 10
     /\ \A i \in 1..(Len(PlanHistory') - 1) :
          PlanHistory'[i + 1].turnIndex = PlanHistory'[i].turnIndex + 1
     /\ pc' = "done" /\ outcome'.status = "ok" =>
          /\ PlanHistory' # <<>>
          /\ PlanHistory'[Len(PlanHistory')] = outcome'.directorPlan
     /\ pc = "saveState" /\ pc' = "done" =>
          PlanHistory' = (IF Len(PlanHistory) < 10 THEN PlanHistory ELSE Tail(PlanHistory))
                           \o <<directorPlan>>
     /\ ~(pc = "saveState" /\ pc' = "done") => PlanHistory' = PlanHistory]_vars

\* The eleventh turn returned: the history holds the plans of turns 1..10
\* (turn indexes), the plan of turn 0 is gone, and model and fallback plans
\* are among the ten.
C33_Witness ==
  /\ pc = "done"
  /\ outcome.status = "ok"
  /\ Len(turns) = 10
  /\ Len(PlanHistory) = 10
  /\ PlanHistory[1].turnIndex = 1
  /\ PlanHistory[10] = outcome.directorPlan
  /\ PlanHistory[10].turnIndex = 10
  /\ PlanHistory[1].trace.source = "model"
  /\ PlanHistory[2].trace.source = "fallback"

StoreWrites == {i \in DOMAIN ops : ops[i].op \in {"saveState", "saveModelAssignment"}}

\* C34: every store write of a turn, saveState or saveModelAssignment, comes
\* after the primary speaker call of every beat of the plan, and a turn that
\* failed has written nothing: no write call, no model assignment saved.
C34_NoEarlyWrite ==
  /\ \A i \in StoreWrites :
       /\ directorPlan.beats # <<>>
       /\ \A k \in DOMAIN directorPlan.beats :
            \E j \in 1..(i - 1) : ops[j].op = "speaker" /\ ops[j].beat = k
  /\ pc = "failed" => StoreWrites = {} /\ assignments = 0

\* The part of C34 about the state store: saveState is the last call of a
\* turn, made once after the primary speaker call of every beat, and a turn
\* that failed leaves the store as it was loaded or found.
StateSavedLast ==
  /\ \A i \in DOMAIN ops :
       ops[i].op = "saveState" =>
         /\ i = Len(ops)
         /\ directorPlan.beats # <<>>
         /\ \A k \in DOMAIN directorPlan.beats :
              \E j \in 1..(i - 1) : ops[j].op = "speaker" /\ ops[j].beat = k
  /\ pc # "done" => store = createInitialRoomState

\* The contents of the thought events of the returned list that belong to
\* the beats of roomie id, in the order of the list.
ReturnedThoughts(id) ==
  NotesOf(SelectSeq(outcome.events,
                    LAMBDA e : e.type = "thought" /\ AgentIdOfBeat(directorPlan, e.beatId) = id))

\* C35: when a turn has returned, the saved agent_memory of every roomie is
\* its loaded memory followed by the contents of the roomie's thought events
\* of the returned event list, in order (the newest MAX_AGENT_MEMORY of
\* them); a roomie without a returned thought keeps its loaded memory.
C35_MemoryOfReturnedThoughts ==
  pc = "done" /\ outcome.status = "ok" =>
    \A id \in RoomieIds :
      store.shared.agent_memory[id] =
        LastN(shared.agent_memory[id] \o ReturnedThoughts(id), MAX_AGENT_MEMORY)

DirectorCallsMade == Count("director") + Count("directorRepair")

\* C36: the plan a turn returns has trace.attempts equal to the number of
\* director generation calls the turn made, 1 or 2, whatever its
\* trace.source, and the saved turn_trace line of the director attempts
\* carries that number.
C36_AttemptsCounted ==
  pc = "done" /\ outcome.status = "ok" =>
    /\ DirectorCallsMade \in {1, 2}
    /\ outcome.directorPlan.trace.attempts = DirectorCallsMade
    /\ store.runtime.turn_trace[2] = DirectorCallsMade

\* The attempts the engine records: the number of director calls for a plan
\* of the director (1 for "model", 2 for "repair"), 0 for the fallback plan;
\* the turn_trace line carries the plan's number.
AttemptsRecorded ==
  pc = "done" /\ outcome.status = "ok" =>
    /\ outcome.directorPlan.trace.source = "model" =>
         DirectorCallsMade = 1 /\ outcome.directorPlan.trace.attempts = 1
    /\ outcome.directorPlan.trace.source = "repair" =>
         DirectorCallsMade = 2 /\ outcome.directorPlan.trace.attempts = 2
    /\ outcome.directorPlan.trace.source = "fallback" =>
         DirectorCallsMade \in {1, 2} /\ outcome.directorPlan.trace.attempts = 0
    /\ store.runtime.turn_trace[2] = outcome.directorPlan.trace.attempts

\* The step ends the current beat.
BeatFinishes == Len(acc'.beatLog) = Len(acc.beatLog) + 1

\* The log entry of the beat the step ends.
LogAfter == acc'.beatLog[Len(acc'.beatLog)]

SpeakContents(events) == NotesOf(SelectSeq(events, LAMBDA e : e.type = "speak"))

\* The speak contents among the events the step leaves in the event list
\* for the current beat.
SpokenAfter == SpeakContents(EventsOfBeat(acc'.allEvents, CurrentBeat.beatId))

\* The events of a parsed output that the current beat permits, up to its
\* maxEvents.
KeptOf(raw) ==
  LET permitted == SelectSeq(ParsedNow(raw).events,
                             LAMBDA e : /\ e.type = "action" => CurrentBeat.allowAction
                                        /\ e.type = "thought" => CurrentBeat.allowThought)
  IN  SubSeq(permitted, 1, Min(Len(permitted), CurrentBeat.maxEvents))

\* C37 as stated: when the output a beat ends with parses and holds a speak
\* event, the beat does not use the fallback and its events in the event
\* list include a speak event with the content of a speak event of the output.
C37_SpeakSurvivesAsStated ==
  [][\A raw \in AcceptSpeakerRaws :
       /\ SpeakerCall(raw) \/ SpeakerRepair(raw)
       /\ BeatFinishes
       /\ ParsedNow(raw).ok
       /\ HasSpeak(ParsedNow(raw).events)
       => /\ ~LogAfter.fallback
          /\ \E c \in Range(SpeakContents(ParsedNow(raw).events)) : c \in Range(SpokenAfter)]_vars

\* C37 with the cut the engine makes: the fallback is used exactly when the
\* output the beat ends with does not parse or has no speak event among the
\* first maxEvents events the beat permits; otherwise the beat's speak
\* events in the event list are the speak events among those, with the
\* contents the output gave them.
C37_SpeakSurvives ==
  [][\A raw \in AcceptSpeakerRaws :
       (SpeakerCall(raw) \/ SpeakerRepair(raw)) /\ BeatFinishes
       => /\ LogAfter.fallback = (~ParsedNow(raw).ok \/ ~HasSpeak(KeptOf(raw)))
          /\ ~LogAfter.fallback => SpokenAfter = SpeakContents(KeptOf(raw))]_vars

\* A beat of maxEvents 3 kept an action and then the speak event of its
\* output, which is in the returned list with the content the output gave it.
C37_Witness ==
  /\ pc = "done"
  /\ outcome.status = "ok"
  /\ directorPlan.beats[1].maxEvents = 3
  /\ acc.beatLog[1].parsed
  /\ ~acc.beatLog[1].fallback
  /\ Len(acc.beatLog[1].accepted) = 2
  /\ acc.beatLog[1].accepted[1].type = "action"
  /\ acc.beatLog[1].accepted[2].type = "speak"
  /\ \E i \in DOMAIN outcome.events :
       outcome.events[i].type = "speak" /\ outcome.events[i].content = <<"h", "i">>

\* A repaired output with the speak event in second place, kept by a beat
\* of maxEvents 2.
C37_WitnessRepaired ==
  /\ pc = "done"
  /\ outcome.status = "ok"
  /\ CountFor("speakerRepair", 1) = 1
  /\ directorPlan.beats[1].maxEvents = 2
  /\ ~acc.beatLog[1].fallback
  /\ Len(acc.beatLog[1].accepted) = 2
  /\ acc.beatLog[1].accepted[2].type = "speak"

\* A beat of maxEvents 1 that permits thoughts used the fallback on an
\* output that parsed.
C37_WitnessCut ==
  /\ pc = "done"
  /\ outcome.status = "ok"
  /\ directorPlan.beats[1].maxEvents = 1
  /\ directorPlan.beats[1].allowThought
  /\ acc.beatLog[1].parsed
  /\ acc.beatLog[1].fallback

\* The final accepted events of the beats finished so far, in plan order.
RECURSIVE AcceptedUpTo(_)
AcceptedUpTo(k) ==
  IF k = 0 THEN <<>> ELSE AcceptedUpTo(k - 1) \o acc.beatLog[k].accepted

AcceptedOfTurn == AcceptedUpTo(Len(acc.beatLog))

\* C38: after every beat the event list is applyBudgetCaps of the turn's
\* budget applied to the accepted events of the beats finished so far, taken
\* in plan order, and the list a finished turn returns is applyBudgetCaps
\* applied to the accepted events of all the beats.
C38_FilterRefinesCaps ==
  /\ pc \in {"speaker", "speakerRepair", "summarizer", "saveState"} =>
       acc.allEvents = applyBudgetCaps(AcceptedOfTurn, input.budget)
  /\ pc = "done" /\ outcome.status = "ok" =>
       /\ Len(acc.beatLog) = Len(directorPlan.beats)
       /\ outcome.events = applyBudgetCaps(AcceptedOfTurn, input.budget)

\* The first beat of a finished turn accepted the same thought twice before
\* its speak event and the second beat another thought; with a thought cap
\* of 2 the returned list holds one thought of each beat, so the repeated
\* thought took nothing from the cap.
C38_Witness ==
  /\ pc = "done"
  /\ outcome.status = "ok"
  /\ input.budget.maxThoughtEventsPerTurn = 2
  /\ Len(acc.beatLog) = 2
  /\ Len(acc.beatLog[1].accepted) = 3
  /\ acc.beatLog[1].accepted[1].type = "thought"
  /\ acc.beatLog[1].accepted[2].type = "thought"
  /\ acc.beatLog[1].accepted[2].content = acc.beatLog[1].accepted[1].content
  /\ Len(EventsOfBeat(outcome.events, acc.beatLog[1].beatId)) = 2
  /\ Len(eventsForAgentPrivateMemory(EventsOfBeat(outcome.events, acc.beatLog[2].beatId))) = 1
  /\ Len(outcome.events) < Len(AcceptedOfTurn)

\* The second beat's action and thought were over the caps the first beat
\* had used up: the returned list holds the second beat's speak event only.
C38_WitnessCapped ==
  /\ pc = "done"
  /\ outcome.status = "ok"
  /\ input.budget.maxThoughtEventsPerTurn = 1
  /\ input.budget.maxActionEventsPerTurn = 1
  /\ Len(acc.beatLog) = 2
  /\ Len(acc.beatLog[1].accepted) = 3
  /\ Len(acc.beatLog[2].accepted) = 3
  /\ Len(EventsOfBeat(outcome.events, acc.beatLog[1].beatId)) = 3
  /\ Len(EventsOfBeat(outcome.events, acc.beatLog[2].beatId)) = 1

GenerationCallsMade == Cardinality({i \in DOMAIN ops : ops[i].op \in GenerationCalls})

\* The calls a turn has made so far are within the stated numbers.
CallBounds ==
  /\ Count("director") <= 1
  /\ Count("directorRepair") <= 1
  /\ Count("summarizer") <= 1
  /\ \A i \in DOMAIN ops :
       ops[i].op \in {"speaker", "speakerRepair"} => ops[i].beat \in 1..Len(activeRoomies)
  /\ \A k \in 1..Len(activeRoomies) :
       /\ CountFor("speaker", k) <= 1
       /\ CountFor("speakerRepair", k) <= CountFor("speaker", k)
  /\ GenerationCallsMade <= 3 + 2 * Len(activeRoomies)

TurnRunning == pc \notin {"idle", "done", "failed"}

TurnEnded == pc \in {"done", "failed"}

\* C39: when every awaited store and generation call comes back, a turn that
\* was invoked ends, and at every moment it has made at most one director
\* call and one director repair call, at most one speaker call and one
\* speaker repair call for each beat, of which there are no more than
\* active roomies, and at most one summarizer call: at most 3 + 2 x (number
\* of active roomies) generation calls.
C39_Terminates ==
  /\ []CallBounds
  /\ TurnRunning ~> TurnEnded

\* A finished turn of two active roomies that made every call it can make:
\* director and director repair, speaker and speaker repair for both beats,
\* and the summarizer, 7 generation calls.
C39_Witness ==
  /\ pc = "done"
  /\ Len(activeRoomies) = 2
  /\ GenerationCallsMade = 3 + 2 * Len(activeRoomies)
  /\ Count("directorRepair") = 1
  /\ CountFor("speakerRepair", 1) = 1
  /\ CountFor("speakerRepair", 2) = 1
  /\ Count("summarizer") = 1

\* A turn whose budget asks for 3 director attempts made two director calls
\* and used the fallback plan.
C39_WitnessThreeAttempts ==
  /\ pc = "done"
  /\ input.budget.maxDirectorAttempts = 3
  /\ DirectorCallsMade = 2
  /\ directorPlan.trace.source = "fallback"

\* The beats of the turn's plan that have the beatId of event.
BeatsOf(event) == {k \in DOMAIN directorPlan.beats : directorPlan.beats[k].beatId = event.beatId}

\* event belongs to one beat of the plan, whose roomie is active and is its author.
OwnedByOneBeat(event) ==
  /\ Cardinality(BeatsOf(event)) = 1
  /\ \A k \in BeatsOf(event) :
       /\ directorPlan.beats[k].agentId \in ActiveIds(activeRoomies)
       /\ event.author = RoomieById(input, directorPlan.beats[k].agentId).name

\* C40: every event of the event list, at every step of the turn and in the
\* list the turn returns, has the beatId of exactly one beat of the plan and
\* the name of that beat's roomie as its author; the history entries written
\* for the returned non-thought events, and every agent entry of the history
\* the turn saves, have the id of a roomie as agent_id.
C40_EventsOwned ==
  /\ \A i \in DOMAIN acc.allEvents : OwnedByOneBeat(acc.allEvents[i])
  /\ pc = "done" /\ outcome.status = "ok" =>
       /\ outcome.directorPlan = directorPlan
       /\ \A i \in DOMAIN outcome.events : OwnedByOneBeat(outcome.events[i])
       /\ LET entries == AgentEntries(outcome.events, directorPlan, shared.turn_index)
          IN  /\ Len(entries) = Len(NonThought(outcome.events))
              /\ \A i \in DOMAIN entries :
                   /\ entries[i].agent_id \in ActiveIds(activeRoomies)
                   /\ RoomieById(input, entries[i].agent_id).name = NonThought(outcome.events)[i].author
       /\ \A i \in DOMAIN store.shared.last_messages :
            store.shared.last_messages[i].role = "agent" =>
              store.shared.last_messages[i].agent_id \in {input.roomies[j].id : j \in DOMAIN input.roomies}

\* A finished turn of two beats returned the action of an output line that
\* named another author and another beat (the only line of these turns with
\* an action): the event has the second beat's id and its roomie's name.
C40_Witness ==
  /\ pc = "done"
  /\ outcome.status = "ok"
  /\ Len(directorPlan.beats) = 2
  /\ \E i \in DOMAIN outcome.events :
       /\ outcome.events[i].type = "action"
       /\ outcome.events[i].origin = "roomie"
       /\ outcome.events[i].beatId = directorPlan.beats[2].beatId
       /\ outcome.events[i].author # <<"Z">>
       /\ outcome.events[i].author = RoomieById(input, directorPlan.beats[2].agentId).name
  /\ \E i \in DOMAIN store.shared.last_messages :
       /\ store.shared.last_messages[i].role = "agent"
       /\ store.shared.last_messages[i].agent_id = directorPlan.beats[2].agentId

====
